---------------------------- MODULE Spec2Model ----------------------------
(***************************************************************************)
(* Model of the rental agent server (src/agent_server.py): the condition   *)
(* merger, the query router and the per-session dialogue state kept in the *)
(* process-wide SESSIONS table under _sessions_lock.                       *)
(*                                                                         *)
(* Python values are tagged records [t, v]: t is the Python type and v the *)
(* payload.  A Python str is a sequence of atoms; an atom is a run of      *)
(* characters the code never looks inside (so the test "station-word in    *)
(* name" is a test for the atom "zhan", and str.strip removes leading and  *)
(* trailing " " atoms).  A dict is a function whose DOMAIN is its key set. *)
(*                                                                         *)
(* Atoms are written in ASCII; the Chinese literals of the source they     *)
(* stand for:  zhan = the station suffix of line 311, chaxun_chucuo = the  *)
(* error prefix of line 362, fangyuan_liebiao = a rendered listing,        *)
(* Haidian/Chaoyang = two names of DISTRICTS_RE, Guomao/Xierqi/Wangjing =  *)
(* names of LANDMARK_NAMES, Xierqi+zhan = the landmark name ending in the  *)
(* station suffix.                                                         *)
(***************************************************************************)
EXTENDS Integers, Sequences, FiniteSets, TLC

VARIABLES
    SESSIONS,   \* session_id -> [history, conditions]      (agent_server.py:18)
    lock,       \* holder of _sessions_lock, or NoThread    (agent_server.py:19)
    req,        \* per handler thread: the frame of agent_reply_with_session
    turns,      \* number of requests accepted so far
    fn_in,      \* inputs of the pure function under check
    fn_out      \* its result, once applied

vars == <<SESSIONS, lock, req, turns, fn_in, fn_out>>

-----------------------------------------------------------------------------
(* Python values *)

PyNone == [t |-> "none", v |-> 0]
PyStr(s) == [t |-> "str", v |-> s]
PyInt(n) == [t |-> "int", v |-> n]

\* a JSON true or false
PyBool(b) == [t |-> "bool", v |-> b]

\* the float w + h/2, for a natural w and h in {0, 1}
PyFloat(w, h) == [t |-> "float", v |-> <<w, h>>]

\* the float json.loads returns for the literal Infinity
PyInf == [t |-> "inf", v |-> 0]

EmptyDict == [k \in {} |-> PyNone]

\* dict.get(k): the value, or None when the key is missing
Get(d, k) == IF k \in DOMAIN d THEN d[k] ELSE PyNone

\* Python truthiness of a value
Truthy(x) ==
    CASE x.t = "none" -> FALSE
      [] x.t = "str"  -> x.v # <<>>
      [] x.t = "int"  -> x.v # 0
      [] x.t = "bool" -> x.v
      [] x.t = "float" -> x.v # <<0, 0>>
      [] OTHER        -> TRUE

IsSpace(a) == a = " "

RECURSIVE lstrip(_)
lstrip(s) == IF s # <<>> /\ IsSpace(Head(s)) THEN lstrip(Tail(s)) ELSE s

RECURSIVE rstrip(_)
rstrip(s) ==
    IF s # <<>> /\ IsSpace(s[Len(s)]) THEN rstrip(SubSeq(s, 1, Len(s) - 1)) ELSE s

\* str.strip()
strip(s) == rstrip(lstrip(s))

\* atom a occurs in string s  ("a" in s)
Contains(s, a) == \E i \in 1..Len(s) : s[i] = a

-----------------------------------------------------------------------------
(* _merge_conditions, agent_server.py:265-274 *)

\* line 271: the incoming values the loop skips
MergeSkips(x) == x.t = "none" \/ (x.t = "str" /\ strip(x.v) = <<>>)

\* a merge in which a blank incoming value erases the stored one
MergeErasing(previous, new) ==
    [k \in (DOMAIN previous \ {j \in DOMAIN new : MergeSkips(new[j])})
            \cup {j \in DOMAIN new : ~MergeSkips(new[j])} |->
        IF k \in DOMAIN new THEN new[k] ELSE previous[k]]

\* a merge that takes every incoming value, blank or not
MergeTakingBlanks(previous, new) ==
    [k \in DOMAIN previous \cup DOMAIN new |->
        IF k \in DOMAIN new THEN new[k] ELSE previous[k]]

_merge_conditions(previous, new) ==
    IF DOMAIN new = {}
    THEN previous
    ELSE [k \in DOMAIN previous \cup {j \in DOMAIN new : ~MergeSkips(new[j])} |->
            IF k \in DOMAIN new /\ ~MergeSkips(new[k]) THEN new[k] ELSE previous[k]]

-----------------------------------------------------------------------------
(* run_tool and build_and_run_query, agent_server.py:102-130, 301-356 *)

\* A command-line word that is a literal of the code
A(x) == PyStr(<<x>>)

\* str(n) of an int, or the str itself
str(x) == IF x.t = "int" THEN PyStr(<<ToString(x.v)>>) ELSE x

PyDict(d) == [t |-> "dict", v |-> d]
PyList(l) == [t |-> "list", v |-> l]

\* truthiness of a JSON value that may be a container
TruthyJ(x) ==
    CASE x.t = "dict" -> DOMAIN x.v # {}
      [] x.t = "list" -> x.v # <<>>
      [] OTHER        -> Truthy(x)

\* a resolution that looks the stored name up as it is
LookupNameRaw(landmark) == landmark

\* line 311: the name looked up first
LookupName(landmark) ==
    IF Contains(landmark.v, "zhan") THEN landmark ELSE PyStr(Append(landmark.v, "zhan"))

\* lines 317-320: the id taken out of a landmark response
LandmarkId(lm_res) ==
    LET data  == Get(lm_res, "data")
        first == IF data.t = "dict" /\ TruthyJ(data) THEN data.v ELSE lm_res
        lid1  == IF TruthyJ(Get(first, "id"))
                 THEN Get(first, "id")
                 ELSE IF data.t = "dict" THEN Get(data.v, "id") ELSE PyNone
    IN  IF ~TruthyJ(lid1) /\ data.t = "list" /\ data.v # <<>>
        THEN Get(data.v[1].v, "id")
        ELSE lid1

\* lines 321-322: what stands in for a missing id
LidFallback(name, landmark) == name

\* lines 313-314: the second lookup and whether it is made
RetryName(name, landmark) == landmark

\* line 316: what the branch does once both lookups have failed.  O is the
\* sequence of responses the collaborator gives to the calls, in call order.
AfterLookupsFailed(calls, landmark, O) ==
    [calls  |-> Append(calls, <<A("search-landmarks"), landmark>>),
     result |-> O[Len(calls) + 1]]

\* line 323
NearbyCall(lid) ==
    <<A("nearby"), lid, A("--max_distance"), A("2000"), A("--page_size"), A("20")>>

\* lines 307-323
LandmarkBranch(landmark, O) ==
    LET name    == LookupName(landmark)
        call1   == <<A("landmark-by-name"), name>>
        failed1 == TruthyJ(Get(O[1], "error"))
        calls2  == IF failed1
                   THEN <<call1, <<A("landmark-by-name"), RetryName(name, landmark)>>>>
                   ELSE <<call1>>
        lm_res  == O[Len(calls2)]
    IN  IF TruthyJ(Get(lm_res, "error"))
        THEN AfterLookupsFailed(calls2, landmark, O)
        ELSE LET found == LandmarkId(lm_res)
                 lid   == IF TruthyJ(found) THEN found ELSE LidFallback(name, landmark)
             IN  [calls  |-> Append(calls2, NearbyCall(lid)),
                  result |-> O[Len(calls2) + 1]]

Opt(flag, present, value) == IF present THEN <<A(flag), value>> ELSE <<>>

\* lines 325-356
PlatformArgs(c) ==
    <<A("by-platform"), A("--page_size"), A("20")>>
    \o Opt("--district", Truthy(Get(c, "district")), Get(c, "district"))
    \o Opt("--area", Truthy(Get(c, "area")) /\ ~Truthy(Get(c, "landmark_nearby")),
           Get(c, "area"))
    \o Opt("--min_price", Get(c, "min_price") # PyNone, str(Get(c, "min_price")))
    \o Opt("--max_price", Get(c, "max_price") # PyNone, str(Get(c, "max_price")))
    \o Opt("--bedrooms", Truthy(Get(c, "bedrooms")), Get(c, "bedrooms"))
    \o Opt("--rental_type", Truthy(Get(c, "rental_type")), Get(c, "rental_type"))
    \o Opt("--max_subway_dist", Truthy(Get(c, "max_subway_dist")),
           str(Get(c, "max_subway_dist")))
    \o Opt("--subway_station", Truthy(Get(c, "subway_station")), Get(c, "subway_station"))
    \o Opt("--commute_to_xierqi_max", Get(c, "commute_to_xierqi_max") # PyNone,
           str(Get(c, "commute_to_xierqi_max")))
    \o Opt("--decoration", Truthy(Get(c, "decoration")), Get(c, "decoration"))
    \o Opt("--orientation", Truthy(Get(c, "orientation")), Get(c, "orientation"))
    \o Opt("--elevator", Truthy(Get(c, "elevator")), Get(c, "elevator"))
    \o Opt("--min_area", Get(c, "min_area") # PyNone, str(Get(c, "min_area")))
    \o Opt("--max_area", Get(c, "max_area") # PyNone, str(Get(c, "max_area")))

\* a router that tests for a landmark before it tests for a community
CommunityAfterLandmark(c) ==
    Truthy(Get(c, "community")) /\ ~Truthy(Get(c, "landmark_nearby"))

\* lines 303-305: the test that selects the community branch
TakesCommunityBranch(c) == Truthy(Get(c, "community"))

\* The calls made, in order, and the result returned.
build_and_run_query(conditions, O) ==
    IF TakesCommunityBranch(conditions)
    THEN [calls  |-> <<<<A("by-community"), conditions["community"],
                         A("--page_size"), A("20")>>>>,
          result |-> O[1]]
    ELSE IF Truthy(Get(conditions, "landmark_nearby"))
    THEN LandmarkBranch(conditions["landmark_nearby"], O)
    ELSE [calls |-> <<PlatformArgs(conditions)>>, result |-> O[1]]

\* format_reply, lines 359-398: the error line, or the rendering of the
\* listing (kept as one atom: the rendering reads no state of the server).
format_reply(result) ==
    IF TruthyJ(Get(result, "error"))
    THEN PyStr(<<"chaxun_chucuo">> \o result["error"].v)
    ELSE PyStr(<<"fangyuan_liebiao">>)

-----------------------------------------------------------------------------
(* The session table and the handler threads *)

NumThreads == 2
MaxTurns == 2
MAX_HISTORY_TURNS == 10

Threads == 1..NumThreads
NoThread == 0

SessionIds == {"s1", "s2"}

\* the default of SESSIONS.get(session_id, ...), lines 480, 524, 533
NewSession == [history |-> <<>>, conditions |-> EmptyDict]

\* the frame of a thread that is not handling a request
IdleFrame ==
    [pc         |-> "idle",
     session_id |-> "",
     message    |-> <<>>,
     model_ip   |-> <<>>,
     session    |-> NewSession,
     new_conditions |-> PyNone,
     conditions |-> EmptyDict,
     calls      |-> <<>>,
     reply      |-> PyNone]

-----------------------------------------------------------------------------
(* Inputs of the pure functions *)

\* the dicts with keys among K whose value at k is drawn from V[k]
DictsOver(K, V) ==
    UNION {{d \in [S -> UNION {V[k] : k \in S}] : \A k \in S : d[k] \in V[k]}
           : S \in SUBSET K}

Pending == [done |-> FALSE]
Applied(x) == [done |-> TRUE, value |-> x]

MergeKeys == {"district", "max_price", "community"}

\* stored conditions: what earlier merges can have left
PrevVals ==
    [k \in MergeKeys |->
        CASE k = "district"  -> {PyStr(<<"Haidian">>), PyStr(<<"Haidian", ",", "Chaoyang">>)}
          [] k = "max_price" -> {PyInt(5000), PyInt(3000)}
          [] k = "community" -> {PyStr(<<"Wanke">>)}]

\* extracted conditions, null and blank values included
NewVals ==
    [k \in MergeKeys |->
        CASE k = "district"  -> {PyNone, PyStr(<<>>), PyStr(<<" ">>), PyStr(<<"Chaoyang">>),
                                 PyStr(<<"Haidian">>), PyStr(<<" ", "Chaoyang">>)}
          [] k = "max_price" -> {PyNone, PyInt(0), PyInt(4000), PyInt(5000)}
          [] k = "community" -> {PyNone, PyStr(<<>>), PyStr(<<"Wanke">>)}]

RouteKeys ==
    {"community", "landmark_nearby", "district", "area", "max_price", "max_subway_dist"}

RouteVals ==
    [k \in RouteKeys |->
        CASE k = "community"       -> {PyStr(<<"Wanke">>)}
          [] k = "landmark_nearby" -> {PyStr(<<"Guomao">>), PyStr(<<"Xierqi", "zhan">>)}
          [] k = "district"        -> {PyStr(<<"Haidian">>)}
          [] k = "area"            -> {PyStr(<<"Wangjing">>)}
          [] k = "max_price"       -> {PyInt(5000)}
          [] k = "max_subway_dist" -> {PyInt(800), PyInt(0)}]

Dict1(k, x) == [j \in {k} |-> x]
Dict2(k1, x1, k2, x2) == [j \in {k1, k2} |-> IF j = k1 THEN x1 ELSE x2]

\* responses of the listing API as run_tool returns them
ErrorResp == Dict1("error", PyStr(<<"HTTP 404">>))
Resps ==
    { ErrorResp,
      EmptyDict,
      Dict1("id", PyStr(<<"LM_1">>)),
      Dict1("data", PyDict(Dict1("id", PyStr(<<"LM_2">>)))),
      Dict1("data", PyDict(EmptyDict)),
      Dict1("data", PyDict(Dict1("name", PyStr(<<"Guomao">>)))),
      Dict1("data", PyList(<<PyDict(Dict1("id", PyStr(<<"LM_3">>)))>>)),
      Dict1("data", PyList(<<>>)),
      Dict1("data", PyList(<<PyDict(Dict1("name", PyStr(<<"Guomao">>)))>>)),
      Dict2("id", PyStr(<<"LM_1">>), "data", PyDict(Dict1("name", PyStr(<<"Guomao">>)))) }

\* the responses to up to three calls, in call order
Oracles == [1..3 -> Resps]

-----------------------------------------------------------------------------
(* The pure functions, applied to drawn inputs *)

SessionsIdle ==
    /\ SESSIONS = EmptyDict
    /\ lock = NoThread
    /\ req = [r \in Threads |-> IdleFrame]
    /\ turns = 0

InitMerge ==
    /\ SessionsIdle
    /\ fn_in \in [previous : DictsOver(MergeKeys, PrevVals), new : DictsOver(MergeKeys, NewVals)]
    /\ fn_out = Pending

ApplyMerge ==
    /\ ~fn_out.done
    /\ fn_out' = Applied(_merge_conditions(fn_in.previous, fn_in.new))
    /\ UNCHANGED <<SESSIONS, lock, req, turns, fn_in>>

SpecMerge == InitMerge /\ [][ApplyMerge]_vars

InitRoute ==
    /\ SessionsIdle
    /\ fn_in \in [conditions : DictsOver(RouteKeys, RouteVals), O : Oracles]
    /\ fn_out = Pending

ApplyRoute ==
    /\ ~fn_out.done
    /\ fn_out' = Applied(build_and_run_query(fn_in.conditions, fn_in.O))
    /\ UNCHANGED <<SESSIONS, lock, req, turns, fn_in>>

SpecRoute == InitRoute /\ [][ApplyRoute]_vars

-----------------------------------------------------------------------------
(* Claims about _merge_conditions *)

\* a value that is neither null nor a blank string
NonBlank(x) == x.t # "none" /\ (x.t = "str" => \E i \in 1..Len(x.v) : ~IsSpace(x.v[i]))

\* C1: merge is field-wise.  For every field the result holds incoming's
\* value when that value is non-null and non-blank (replacing the previous
\* value entirely), otherwise previous's value when previous has the field,
\* otherwise the field is absent; a null or blank incoming value never
\* erases a stored value.
C1_MergeFieldwise ==
    fn_out.done =>
        LET p == fn_in.previous
            n == fn_in.new
            r == fn_out.value
        IN  /\ DOMAIN r \subseteq DOMAIN p \cup DOMAIN n
            /\ \A k \in MergeKeys :
                IF k \in DOMAIN n /\ NonBlank(n[k])
                THEN k \in DOMAIN r /\ r[k] = n[k]
                ELSE IF k \in DOMAIN p
                     THEN k \in DOMAIN r /\ r[k] = p[k]
                     ELSE k \notin DOMAIN r

\* a stored district list is replaced by a single incoming district while a
\* blank incoming community and a null incoming price leave the stored ones
C1_Witness ==
    /\ fn_out.done
    /\ fn_in.previous = [k \in MergeKeys |->
            CASE k = "district"  -> PyStr(<<"Haidian", ",", "Chaoyang">>)
              [] k = "max_price" -> PyInt(5000)
              [] k = "community" -> PyStr(<<"Wanke">>)]
    /\ fn_in.new = [k \in MergeKeys |->
            CASE k = "district"  -> PyStr(<<"Chaoyang">>)
              [] k = "max_price" -> PyNone
              [] k = "community" -> PyStr(<<>>)]
    /\ fn_out.value["district"] = PyStr(<<"Chaoyang">>)
    /\ fn_out.value["max_price"] = PyInt(5000)
    /\ fn_out.value["community"] = PyStr(<<"Wanke">>)

-----------------------------------------------------------------------------
(* Claims about build_and_run_query *)

IsSet(c, k) == k \in DOMAIN c /\ NonBlank(c[k])

Failed(resp) == "error" \in DOMAIN resp

LookupCall(name) == <<A("landmark-by-name"), name>>

\* the landmark branch has been taken and has returned
LandmarkRouted ==
    /\ fn_out.done
    /\ ~IsSet(fn_in.conditions, "community")
    /\ IsSet(fn_in.conditions, "landmark_nearby")

\* the ids a response carries in one of the accepted shapes
FoundIds(resp) ==
    {Get(resp, "id")}
    \cup (IF "data" \in DOMAIN resp /\ resp["data"].t = "dict"
          THEN {Get(resp["data"].v, "id")} ELSE {})
    \cup (IF "data" \in DOMAIN resp /\ resp["data"].t = "list" /\ resp["data"].v # <<>>
          THEN {Get(resp["data"].v[1].v, "id")} ELSE {})

RealIds(resp) == FoundIds(resp) \ {PyNone}

\* C6: with community set, route issues exactly one call, the
\* community-scoped listing query with page size 20, whatever other fields
\* are present.
C6_CommunityOnly ==
    (fn_out.done /\ IsSet(fn_in.conditions, "community")) =>
        fn_out.value.calls =
            << <<A("by-community"), fn_in.conditions["community"],
                 A("--page_size"), A("20")>> >>

C6_Witness ==
    /\ fn_out.done
    /\ IsSet(fn_in.conditions, "community")
    /\ IsSet(fn_in.conditions, "landmark_nearby")
    /\ IsSet(fn_in.conditions, "district")
    /\ Len(fn_out.value.calls) = 1
    /\ fn_out.value.calls[1][1] = A("by-community")

\* C7: with landmark_nearby set and community unset, when both name lookups
\* fail the router searches landmarks, and if the search yields no id it
\* issues the proximity query with the raw landmark name; the landmark
\* branch always ends by issuing a proximity query.
C7_LandmarkEndsInProximity ==
    LandmarkRouted =>
        LET calls    == fn_out.value.calls
            last     == calls[Len(calls)]
            landmark == fn_in.conditions["landmark_nearby"]
            bothFail == Failed(fn_in.O[1]) /\ Failed(fn_in.O[2])
        IN  /\ last[1] = A("nearby")
            /\ bothFail => \E i \in 1..Len(calls) : calls[i][1] = A("search-landmarks")
            /\ (bothFail /\ RealIds(fn_in.O[3]) = {}) => last[2] = landmark

C9_ProximityIdentifier ==
    (LandmarkRouted /\ (~Failed(fn_in.O[1]) \/ ~Failed(fn_in.O[2]))) =>
        LET calls    == fn_out.value.calls
            last     == calls[Len(calls)]
            landmark == fn_in.conditions["landmark_nearby"]
            lm_res   == IF Failed(fn_in.O[1]) THEN fn_in.O[2] ELSE fn_in.O[1]
        IN  /\ last[1] = A("nearby")
            /\ SubSeq(last, 3, Len(last))
                 = <<A("--max_distance"), A("2000"), A("--page_size"), A("20")>>
            /\ IF RealIds(lm_res) # {}
               THEN last[2] \in RealIds(lm_res)
               ELSE last[2] = landmark

-----------------------------------------------------------------------------
(* Text: a message is a sequence of atoms.  The atoms and the literals of  *)
(* the source they stand for: chongzhi, chushihua, init = the reset words  *)
(* of line 464; zu = the rent character, tui = the character that turns it *)
(* into "terminate", zheng+zu / he+zu = the two rental types; HF_ followed *)
(* by a number = a listing id ([A-Z]+_\d+); xiangqing, jieshao, kankan =   *)
(* the detail words; fangyuan, fangzi = the listing nouns; fujin,          *)
(* bianshang, zhoubian = the nearby cues; xiaoqu = the community noun;     *)
(* lianjia, tongcheng = platform words; yinei, buchaoguo, dao, yuan, ping, *)
(* mi, ju, shi, fenzhong, tongqin, ditie, jin, li = the words of the rule  *)
(* patterns; yi, er, liang, san = the numeral words; nihao = a word no     *)
(* rule matches; long30 = a run of thirty such characters.                 *)

Districts ==
    {"Haidian", "Chaoyang", "Xicheng", "Dongcheng", "Fengtai", "Tongzhou",
     "Changping", "Daxing", "Fangshan", "Shunyi", "Shijingshan"}

\* the one-atom names of LANDMARK_NAMES; the name a match captures for a
\* text holding name+zhan is the bare name, which the alternation tries first
Landmarks == {"Xierqi", "Shangdi", "Guomao", "Wangjing", "Zhongguancun", "Wudaokou"}

KnownNums == {1, 2, 3, 12, 45, 50, 58, 80, 800, 2000, 3000, 4000, 5000}

IsNum(a) == \E n \in KnownNums : ToString(n) = a

\* int(a) of a run of digits
int(a) == CHOOSE n \in KnownNums : ToString(n) = a

\* the atom at position i, or "" past the end
At(t, i) == IF i \in 1..Len(t) THEN t[i] ELSE ""

\* \s* : the first position at or after i that holds no space
RECURSIVE Sp(_, _)
Sp(t, i) == IF i <= Len(t) /\ IsSpace(t[i]) THEN Sp(t, i + 1) ELSE i

\* the atoms pat occur at position i of t
HasAt(t, i, pat) == \A j \in 1..Len(pat) : At(t, i + j - 1) = pat[j]

\* substring test: pat in t
Has(t, pat) == \E i \in 1..Len(t) : HasAt(t, i, pat)

\* number of characters of an atom
AtomLen(a) ==
    CASE a = "long30" -> 30
      [] a \in {" ", ",", "-", "~", "zu", "tui", "zheng", "he", "dao", "yuan", "ping", "mi",
                "ju", "shi", "jin", "li", "yi", "er", "liang", "san", "you", "dai", "wu"} -> 1
      [] IsNum(a) -> (IF int(a) < 10 THEN 1 ELSE IF int(a) < 100 THEN 2
                      ELSE IF int(a) < 1000 THEN 3 ELSE 4)
      [] OTHER -> IF a \in {"HF_", "buchaoguo", "Xierqi", "Zhongguancun", "Wudaokou",
                            "Shijingshan", "chushihua", "Chegongzhuang"} THEN 3
                  ELSE IF a = "init" THEN 4 ELSE 2

RECURSIVE len(_)
len(t) == IF t = <<>> THEN 0 ELSE AtomLen(Head(t)) + len(Tail(t))

\* [A-Z]+_\d+ at position i
IdAt(t, i) == At(t, i) = "HF_" /\ IsNum(At(t, i + 1))

\* the least position in 1..Len(t) satisfying P, or 0
FirstPos(t, P(_)) ==
    IF \E i \in 1..Len(t) : P(i)
    THEN CHOOSE i \in 1..Len(t) : P(i) /\ \A j \in 1..(i - 1) : ~P(j)
    ELSE 0

\* d[k] = x
Put(d, k, x) == [j \in DOMAIN d \cup {k} |-> IF j = k THEN x ELSE d[j]]

-----------------------------------------------------------------------------
(* _is_special_intent, agent_server.py:461-472 *)

ResetWord(t) == Contains(t, "chongzhi") \/ Contains(t, "chushihua") \/ Contains(t, "init")

RentAt(t, i) == At(t, i) = "zu" /\ IdAt(t, Sp(t, i + 1))

TerminateAt(t, i) == HasAt(t, i, <<"tui", "zu">>) /\ IdAt(t, Sp(t, i + 2))

DetailWords(t) ==
    Contains(t, "xiangqing") \/ Contains(t, "jieshao") \/ Contains(t, "kankan")

_is_special_intent(text) ==
    LET t == strip(text)
    IN  IF ResetWord(t) THEN "reset"
        ELSE IF (\E i \in 1..Len(t) : RentAt(t, i)) /\ ~Contains(t, "tui") THEN "rent"
        ELSE IF \E i \in 1..Len(t) : TerminateAt(t, i) THEN "terminate"
        ELSE IF (\E i \in 1..Len(t) : IdAt(t, i)) /\ (DetailWords(t) \/ len(t) < 30)
             THEN "detail"
        ELSE ""

-----------------------------------------------------------------------------
(* extract_conditions, agent_server.py:133-215 *)

InDistricts(a) == a \in Districts

\* dict.fromkeys: the first occurrence of each element, in order
RECURSIVE Dedupe(_)
Dedupe(q) ==
    IF q = <<>> THEN <<>>
    ELSE LET init == Dedupe(SubSeq(q, 1, Len(q) - 1))
             x    == q[Len(q)]
         IN  IF \E i \in 1..Len(init) : init[i] = x THEN init ELSE Append(init, x)

\* ",".join
RECURSIVE JoinComma(_)
JoinComma(q) ==
    IF q = <<>> THEN <<>>
    ELSE IF Len(q) = 1 THEN <<q[1]>>
    ELSE <<q[1], ",">> \o JoinComma(Tail(q))

\* lines 139-146
DistrictRule(t, c) ==
    LET found == SelectSeq(t, InDistricts)
    IN  IF found = <<>> THEN c ELSE Put(c, "district", PyStr(JoinComma(Dedupe(found))))

\* the names the finditer of line 149 yields, in text order
RECURSIVE LandmarkMatches(_, _)
LandmarkMatches(t, i) ==
    IF i > Len(t) THEN <<>>
    ELSE IF t[i] \in Landmarks THEN <<(<<t[i]>>)>> \o LandmarkMatches(t, i + 1)
    ELSE IF HasAt(t, i, <<"Chegongzhuang", "zhan">>)
         THEN <<(<<"Chegongzhuang", "zhan">>)>> \o LandmarkMatches(t, i + 2)
    ELSE LandmarkMatches(t, i + 1)

NearbyCue(t) == Contains(t, "fujin") \/ Contains(t, "bianshang") \/ Contains(t, "zhoubian")

\* lines 149-154
LandmarkRule(t, c) ==
    LET names == LandmarkMatches(t, 1)
    IN  IF names = <<>> THEN c
        ELSE IF NearbyCue(t) THEN Put(c, "landmark_nearby", PyStr(names[Len(names)]))
        ELSE Put(c, "area", PyStr(names[1]))

PricePrefix == {"yusuan", "zujin", "zu", "jiage", "jia"}

\* line 157: the position of the captured number when the pattern matches
\* at position i, else 0
AtMostPriceNum(t, i) ==
    LET p == Sp(t, IF At(t, i) \in PricePrefix THEN i + 1 ELSE i)
        q == Sp(t, i + 1)
    IN  IF IsNum(At(t, p)) /\ At(t, Sp(t, p + 1)) = "yinei" THEN p
        ELSE IF At(t, i) = "buchaoguo" /\ IsNum(At(t, q)) THEN q
        ELSE IF IsNum(At(t, i)) THEN i
        ELSE 0

\* lines 157-159
AtMostPriceRule(t, c) ==
    LET i == FirstPos(t, LAMBDA j : AtMostPriceNum(t, j) # 0)
    IN  IF i = 0 THEN c ELSE Put(c, "max_price", PyInt(int(t[AtMostPriceNum(t, i)])))

RangeSep == {"-", "~", "dao"}

\* (\d+)\s*[-~dao]\s*(\d+) at position i: the position of the second number, else 0
RangeSecond(t, i) ==
    LET j == Sp(t, i + 1)
        k == Sp(t, j + 1)
    IN  IF IsNum(At(t, i)) /\ At(t, j) \in RangeSep /\ IsNum(At(t, k)) THEN k ELSE 0

\* a range rule that keeps the upper bound the at-most rule has set
PriceRangeKeepingMax(t, c) ==
    LET i == FirstPos(t, LAMBDA j : RangeSecond(t, j) # 0)
    IN  IF i = 0 THEN c
        ELSE IF "max_price" \in DOMAIN c THEN Put(c, "min_price", PyInt(int(t[i])))
        ELSE Put(Put(c, "min_price", PyInt(int(t[i]))),
                 "max_price", PyInt(int(t[RangeSecond(t, i)])))

\* lines 160-162
PriceRangeRule(t, c) ==
    LET i == FirstPos(t, LAMBDA j : RangeSecond(t, j) # 0)
    IN  IF i = 0 THEN c
        ELSE Put(Put(c, "min_price", PyInt(int(t[i]))),
                 "max_price", PyInt(int(t[RangeSecond(t, i)])))

CnNum == {"yi", "er", "liang", "san"}

num_map(a) == CASE a = "yi" -> 1 [] a = "er" -> 2 [] a = "liang" -> 2 [] a = "san" -> 3

\* line 165 at position i: the bedroom count, or 0 when there is no match
BedroomsAt(t, i) ==
    LET nxt == At(t, Sp(t, i + 1))
    IN  IF At(t, i) \in CnNum /\ nxt \in {"ju", "shi"} THEN num_map(t[i])
        ELSE IF IsNum(At(t, i)) /\ nxt = "shi" THEN 10 + (int(t[i]) % 10)
        ELSE 0

\* lines 165-173 (a captured digit d is carried as 10 + d, so that "0" is a match)
BedroomsRule(t, c) ==
    LET i == FirstPos(t, LAMBDA j : BedroomsAt(t, j) # 0)
        n == BedroomsAt(t, i)
    IN  IF i = 0 THEN c
        ELSE Put(c, "bedrooms", PyStr(<<ToString(IF n >= 10 THEN n - 10 ELSE n)>>))

\* lines 176-179
RentalTypeRule(t, c) ==
    IF Has(t, <<"he", "zu">>) THEN Put(c, "rental_type", PyStr(<<"he", "zu">>))
    ELSE IF Has(t, <<"zheng", "zu">>) THEN Put(c, "rental_type", PyStr(<<"zheng", "zu">>))
    ELSE c

\* lines 182-183
SubwayRule(t, c) ==
    IF Has(t, <<"jin", "ditie">>) \/ Has(t, <<"li", "ditie", "jin">>)
       \/ Has(t, <<"ditie", "fujin">>)
    THEN Put(c, "max_subway_dist", PyInt(800))
    ELSE c

\* line 186 at position i: the position of the number, else 0
CommuteNum(t, i) ==
    LET p == Sp(t, i + 1)
    IN  IF At(t, i) \in {"Xierqi", "tongqin"} /\ IsNum(At(t, p))
           /\ At(t, Sp(t, p + 1)) = "fenzhong"
        THEN p ELSE 0

\* lines 186-188
CommuteRule(t, c) ==
    LET i == FirstPos(t, LAMBDA j : CommuteNum(t, j) # 0)
    IN  IF i = 0 THEN c
        ELSE Put(c, "commute_to_xierqi_max", PyInt(int(t[CommuteNum(t, i)])))

\* lines 191-200
DecorationRule(t, c) ==
    LET c1 == IF Contains(t, "jianzhuang") THEN Put(c, "decoration", PyStr(<<"jianzhuang">>))
              ELSE IF Contains(t, "jingzhuang")
                   THEN Put(c, "decoration", PyStr(<<"jingzhuang">>))
              ELSE c
        c2 == IF Contains(t, "chaonan") \/ Contains(t, "nanxiang")
              THEN Put(c1, "orientation", PyStr(<<"chaonan">>)) ELSE c1
    IN  IF Has(t, <<"wu", "dianti">>) THEN Put(c2, "elevator", PyStr(<<"false">>))
        ELSE IF Has(t, <<"you", "dianti">>) \/ Has(t, <<"dai", "dianti">>)
             THEN Put(c2, "elevator", PyStr(<<"true">>))
        ELSE c2

\* line 203 at position i: the position of the number, else 0
AtMostAreaNum(t, i) ==
    LET p  == Sp(t, i + 1)
        m  == IF At(t, p + 1) = "mi" THEN p + 2 ELSE p + 1
    IN  IF IsNum(At(t, i)) /\ At(t, p) = "ping" /\ At(t, Sp(t, m)) = "yinei" THEN i
        ELSE IF At(t, i) = "buchaoguo" /\ IsNum(At(t, p)) /\ At(t, Sp(t, p + 1)) = "ping"
             THEN p
        ELSE 0

\* lines 203-208
AreaRule(t, c) ==
    LET i  == FirstPos(t, LAMBDA j : AtMostAreaNum(t, j) # 0)
        c1 == IF i = 0 THEN c ELSE Put(c, "max_area", PyInt(int(t[AtMostAreaNum(t, i)])))
        r  == FirstPos(t, LAMBDA j : RangeSecond(t, j) # 0
                                     /\ At(t, Sp(t, RangeSecond(t, j) + 1)) = "ping")
    IN  IF r = 0 THEN c1
        ELSE Put(Put(c1, "min_area", PyInt(int(t[r]))),
                 "max_area", PyInt(int(t[RangeSecond(t, r)])))

IsQuote(a) == a = "'"

\* the end of the run of atoms from i on that are neither spaces nor quotes
RECURSIVE NameEnd(_, _)
NameEnd(t, i) ==
    IF i <= Len(t) /\ ~IsSpace(t[i]) /\ ~IsQuote(t[i]) THEN NameEnd(t, i + 1) ELSE i - 1

\* the end of the run of atoms from i on that are not spaces
RECURSIVE WordEnd(_, _)
WordEnd(t, i) == IF i <= Len(t) /\ ~IsSpace(t[i]) THEN WordEnd(t, i + 1) ELSE i - 1

\* line 211 at position i: the captured name, or <<"">> when there is no match.
\* First alternative: the noun, then the name; second: the name, then the noun.
CommunityAt(t, i) ==
    LET p  == Sp(t, i + 1)
        p1 == IF IsQuote(At(t, p)) /\ NameEnd(t, p + 1) >= p + 1 THEN p + 1 ELSE p
        e  == WordEnd(t, i)
        ks == {k \in i..e : IF k = e THEN At(t, Sp(t, e + 1)) = "xiaoqu"
                                     ELSE t[k + 1] = "xiaoqu"}
    IN  IF At(t, i) = "xiaoqu" /\ NameEnd(t, p1) >= p1
        THEN SubSeq(t, p1, NameEnd(t, p1))
        ELSE IF e >= i /\ ks # {}
             THEN SubSeq(t, i, CHOOSE k \in ks : \A j \in ks : j <= k)
        ELSE <<"">>

RECURSIVE lstripQuotes(_)
lstripQuotes(q) == IF q # <<>> /\ IsQuote(Head(q)) THEN lstripQuotes(Tail(q)) ELSE q

RECURSIVE rstripQuotes(_)
rstripQuotes(q) ==
    IF q # <<>> /\ IsQuote(q[Len(q)]) THEN rstripQuotes(SubSeq(q, 1, Len(q) - 1)) ELSE q

\* lines 211-213
CommunityRule(t, c) ==
    LET i == FirstPos(t, LAMBDA j : CommunityAt(t, j) # <<"">>)
    IN  IF i = 0 THEN c
        ELSE Put(c, "community", PyStr(rstripQuotes(lstripQuotes(CommunityAt(t, i)))))

extract_conditions(text) ==
    LET t == strip(text)
    IN  CommunityRule(t, AreaRule(t, DecorationRule(t, CommuteRule(t, SubwayRule(t,
            RentalTypeRule(t, BedroomsRule(t, PriceRangeRule(t, AtMostPriceRule(t,
                LandmarkRule(t, DistrictRule(t, EmptyDict)))))))))))

-----------------------------------------------------------------------------
(* _normalize_llm_conditions, agent_server.py:277-298 *)

allowed ==
    {"district", "area", "min_price", "max_price", "bedrooms", "rental_type",
     "max_subway_dist", "subway_station", "commute_to_xierqi_max",
     "decoration", "orientation", "elevator", "min_area", "max_area",
     "community", "landmark_nearby"}

IntFields ==
    {"min_price", "max_price", "max_subway_dist", "commute_to_xierqi_max",
     "min_area", "max_area"}

\* line 287: the entries the loop drops before any conversion
NormalizeDrops(k, x) ==
    k \notin allowed \/ x.t = "none" \/ (x.t = "str" /\ strip(x.v) = <<>>)

\* repr of a value, as str() of a list shows its elements (lists of at
\* most one element)
RECURSIVE PyRepr(_)
PyRepr(x) ==
    CASE x.t = "str"  -> <<"'">> \o x.v \o <<"'">>
      [] x.t = "int"  -> <<ToString(x.v)>>
      [] x.t = "list" ->
            IF x.v = <<>> THEN <<"[", "]">>
            ELSE <<"[">> \o PyRepr(x.v[1]) \o <<"]">>
      [] OTHER        -> <<"?">>

\* lines 291, 295: int(v) of an infinite float raises OverflowError, which
\* line 292 does not catch and line 295 does not guard
NormalizeRaises(raw) ==
    \E k \in DOMAIN raw :
        /\ ~NormalizeDrops(k, raw[k])
        /\ k \in IntFields \cup {"bedrooms"}
        /\ raw[k].t = "inf"

\* line 291: int(float(v)) succeeds
IntConvertible(x) ==
    \/ x.t \in {"int", "bool", "float"}
    \/ x.t = "str" /\ Len(strip(x.v)) = 1 /\ IsNum(strip(x.v)[1])

\* lines 291, 295: int(float(v)), int(v)
IntOf(x) ==
    CASE x.t = "int"   -> x
      [] x.t = "bool"  -> PyInt(IF x.v THEN 1 ELSE 0)
      [] x.t = "float" -> PyInt(x.v[1])
      [] OTHER         -> PyInt(int(strip(x.v)[1]))

\* a conversion that shows every bedrooms value as str() shows a list element
NormalizeValueQuoting(k, x) ==
    IF k \in IntFields THEN IntOf(x)
    ELSE IF k = "bedrooms" THEN PyStr(PyRepr(x))
    ELSE IF x.t = "str" THEN PyStr(strip(x.v)) ELSE x

\* lines 289-297: the value stored for a kept entry
NormalizeValue(k, x) ==
    IF k \in IntFields THEN IntOf(x)
    ELSE IF k = "bedrooms"
         THEN (IF x.t \in {"int", "bool", "float"} THEN str(IntOf(x))
               ELSE IF x.t = "str" THEN PyStr(strip(x.v))
               ELSE PyStr(PyRepr(x)))
    ELSE IF x.t = "str" THEN PyStr(strip(x.v)) ELSE x

\* a normalizer that lets the keys outside the enumeration through
NormalizeKeepingKeys(raw) ==
    LET kept == {k \in DOMAIN raw :
                    \/ k \notin allowed
                    \/ ~NormalizeDrops(k, raw[k]) /\ (k \in IntFields => IntConvertible(raw[k]))}
    IN  [k \in kept |-> IF k \in allowed THEN NormalizeValue(k, raw[k]) ELSE raw[k]]

\* the map returned when no conversion raises
_normalize_llm_conditions(raw) ==
    LET kept == {k \in DOMAIN raw :
                    ~NormalizeDrops(k, raw[k]) /\ (k \in IntFields => IntConvertible(raw[k]))}
    IN  [k \in kept |-> NormalizeValue(k, raw[k])]

-----------------------------------------------------------------------------
(* agent_reply, agent_server.py:401-448: the single-turn intents, which are *)
(* the branches agent_reply_with_session reaches it with                    *)

\* [A-Z]+_\d+ at position i, as the str the pattern captures
HouseId(t, i) == PyStr(<<t[i], t[i + 1]>>)

\* lines 418-422, 431-435
Platform(t) ==
    IF Contains(t, "lianjia") THEN PyStr(<<"lianjia">>)
    ELSE IF Contains(t, "58") THEN PyStr(<<"58", "tongcheng">>)
    ELSE PyStr(<<"anjuke">>)

\* the call a single-turn intent makes
SpecialCallArgs(text) ==
    LET t      == strip(text)
        intent == _is_special_intent(text)
        ri     == FirstPos(t, LAMBDA j : RentAt(t, j))
        ti     == FirstPos(t, LAMBDA j : TerminateAt(t, j))
        di     == FirstPos(t, LAMBDA j : IdAt(t, j))
    IN  CASE intent = "rent"      -> <<A("rent"), HouseId(t, Sp(t, ri + 1)), Platform(t)>>
          [] intent = "terminate" -> <<A("terminate"), HouseId(t, Sp(t, ti + 2)), Platform(t)>>
          [] OTHER                -> <<A("house"), HouseId(t, di)>>

\* the reply, given the response r of that call
agent_reply(text, r) ==
    LET intent == _is_special_intent(text)
        args   == SpecialCallArgs(text)
        failed == TruthyJ(Get(r, "error"))
    IN  CASE intent = "rent" ->
                IF failed THEN PyStr(<<"zufang_caozuo_shibai">> \o r["error"].v)
                ELSE PyStr(<<"yi_banli_zufang">> \o args[2].v \o args[3].v)
          [] intent = "terminate" ->
                IF failed THEN PyStr(<<"tuizu_shibai">> \o r["error"].v)
                ELSE PyStr(<<"yi_tuizu">> \o args[2].v \o args[3].v)
          [] OTHER ->
                IF failed THEN PyStr(<<"chaxun_shibai">> \o r["error"].v)
                ELSE format_reply(r)

-----------------------------------------------------------------------------
(* agent_reply_with_session and _append_session_history,                   *)
(* agent_server.py:475-539.  A with-block of _sessions_lock is two steps:  *)
(* the acquisition, and the body together with the release.                *)

\* the messages the clients send
Msgs ==
    { <<"chongzhi">>,
      <<"nihao">>,
      <<"Haidian">>,
      <<"Wanke", "xiaoqu">>,
      <<"'", "xiaoqu">>,
      <<"zu", "HF_", "1">>,
      <<"tui", "zu", "HF_", "1">>,
      <<"HF_", "1">> }

\* model_ip of the request body: absent, or the address of a model service
ModelIps == {<<>>, <<"10.0.0.1">>}

\* what the model service answers: nothing usable (unreachable, an
\* exception, unparsable content), or a JSON object
LlmAnswers ==
    { PyNone,
      PyDict(EmptyDict),
      PyDict(Dict2("district", PyStr(<<"Chaoyang">>), "max_price", PyStr(<<"4000">>))) }

OkResp == EmptyDict

\* what subprocess.run does with the tool's command line, lines 113-120: the
\* process completes with a return code, its output and its error text, or
\* the 30 s limit expires, or the interpreter is not found.  The output is
\* a PyDict when it is the JSON text of that object and a PyStr otherwise.
Completed(returncode, stdout, stderr) ==
    [kind |-> "completed", returncode |-> returncode, stdout |-> stdout, stderr |-> stderr]
TimeoutExpired == [kind |-> "TimeoutExpired"]
FileNotFoundError == [kind |-> "FileNotFoundError"]

\* run_tool, lines 121-130: the dict it returns
run_tool(p) ==
    CASE p.kind = "TimeoutExpired"    -> Dict1("error", PyStr(<<"qingqiu_chaoshi">>))
      [] p.kind = "FileNotFoundError" -> Dict1("error", PyStr(<<"weizhaodao", "RENTAL_API">>))
      [] OTHER ->
           IF p.returncode # 0 /\ p.stdout = PyStr(<<>>)
           THEN Dict1("error", IF p.stderr # <<>> THEN PyStr(p.stderr)
                               ELSE PyStr(<<"exit code", ToString(p.returncode)>>))
           ELSE IF p.stdout.t = "dict" THEN p.stdout.v
           ELSE IF strip(p.stdout.v) = <<>> THEN EmptyDict
           ELSE Dict2("error", PyStr(<<"gongju_fanhui_fei_JSON">>), "raw", p.stdout)

\* the runs of the tool a turn meets: an answer of the listing API, a
\* refusal reported by the tool, and a call cut off by the time limit
ToolRuns ==
    { Completed(0, PyDict(OkResp), <<>>),
      Completed(1, PyStr(<<>>), <<"HTTP 404">>),
      TimeoutExpired }

TimeoutResp == run_tool(TimeoutExpired)

\* the responses of the listing API to the calls of one turn
TurnOracles == [1..3 -> {run_tool(p) : p \in ToolRuns}]

\* _has_llm, lines 66-70, with the openai package importable and no
\* LLM_API_KEY / LLM_BASE_URL configured (lines 25-26)
_has_llm(model_ip) == strip(model_ip) # <<>>

\* extract_conditions_with_llm, lines 222-262, given the service's answer
extract_conditions_with_llm(answer) ==
    IF answer.t = "dict" /\ ~NormalizeRaises(answer.v)
    THEN PyDict(_normalize_llm_conditions(answer.v))
    ELSE PyNone

Entry(role, content) == [role |-> role, content |-> content]

\* q[-n:]
LastN(q, n) == IF Len(q) <= n THEN q ELSE SubSeq(q, Len(q) - n + 1, Len(q))

\* an append that never drops an entry
AppendedUntruncated(S, session_id, user_msg, assistant_msg) ==
    LET s == IF session_id \in DOMAIN S THEN S[session_id] ELSE NewSession
        h == s.history \o <<Entry("user", user_msg), Entry("assistant", assistant_msg)>>
    IN  Put(S, session_id, [s EXCEPT !.history = h])

\* an append that keeps one entry less than the bound
AppendedOdd(S, session_id, user_msg, assistant_msg) ==
    LET s == IF session_id \in DOMAIN S THEN S[session_id] ELSE NewSession
        h == s.history \o <<Entry("user", user_msg), Entry("assistant", assistant_msg)>>
    IN  Put(S, session_id, [s EXCEPT !.history = LastN(h, MAX_HISTORY_TURNS * 2 - 1)])

\* lines 533-539: the table after the append
AppendedHistory(S, session_id, user_msg, assistant_msg) ==
    LET s == IF session_id \in DOMAIN S THEN S[session_id] ELSE NewSession
        h == s.history \o <<Entry("user", user_msg), Entry("assistant", assistant_msg)>>
    IN  Put(S, session_id, [s EXCEPT !.history = LastN(h, MAX_HISTORY_TURNS * 2)])

\* line 517
ClarifyReply == PyStr(<<"wei_shibie_tiaojian">>)

\* the history n turns leave that asked for nothing recognisable
RECURSIVE ClarifyTurns(_)
ClarifyTurns(n) ==
    IF n = 0 THEN <<>>
    ELSE ClarifyTurns(n - 1)
         \o <<Entry("user", PyStr(<<"nihao">>)), Entry("assistant", ClarifyReply)>>

\* The server starts with an empty table.  The second table is the one it
\* has after MAX_HISTORY_TURNS - 1 such turns and one answered query for a
\* district in session s1: a full history and stored conditions.
LongSession ==
    [history    |-> ClarifyTurns(MAX_HISTORY_TURNS - 1)
                    \o <<Entry("user", PyStr(<<"Haidian">>)),
                         Entry("assistant", PyStr(<<"fangyuan_liebiao">>))>>,
     conditions |-> Dict1("district", PyStr(<<"Haidian">>))]

Init ==
    /\ SESSIONS \in {EmptyDict, Dict1("s1", LongSession)}
    /\ lock = NoThread
    /\ req = [r \in Threads |-> IdleFrame]
    /\ turns = 0
    /\ fn_in = Pending
    /\ fn_out = Pending

InFlight(r) == req[r].pc # "idle"

\* line 478: a key no session and no request in flight uses
FreshIds ==
    {k \in SessionIds : k \notin DOMAIN SESSIONS
                        /\ \A r \in Threads : InFlight(r) => req[r].session_id # k}

\* do_POST hands a request to agent_reply_with_session, lines 565-568, 475-478.
\* The threads are interchangeable: a request goes to the first free one.
Start(r, session_id, message, model_ip) ==
    /\ req[r].pc = "idle"
    /\ \A r2 \in Threads : r2 < r => InFlight(r2)
    /\ turns < MaxTurns
    /\ turns' = turns + 1
    /\ req' = [req EXCEPT ![r] =
                 [IdleFrame EXCEPT !.pc = "snapshot_wait",
                                   !.session_id = session_id,
                                   !.message = message,
                                   !.model_ip = model_ip]]
    /\ UNCHANGED <<SESSIONS, lock, fn_in, fn_out>>

\* a request that names its session
StartKnown(r) ==
    \E k \in SessionIds, m \in Msgs, ip \in ModelIps : Start(r, k, m, ip)

\* a request without session_id: line 478 generates the key
StartFresh(r) ==
    \E k \in FreshIds, m \in Msgs, ip \in ModelIps : Start(r, k, m, ip)

\* HTTPServer.serve_forever, lines 589-594: the server takes the next
\* request when the handler of the previous one has returned
ServerFree == \A r \in Threads : ~InFlight(r)

\* entering a with-block: lines 479, 485, 523, 532
Acquire(r) ==
    /\ req[r].pc \in {"snapshot_wait", "clear_wait", "store_wait", "append_wait"}
    /\ lock = NoThread
    /\ lock' = r
    /\ req' = [req EXCEPT ![r].pc =
                 CASE req[r].pc = "snapshot_wait" -> "snapshot"
                   [] req[r].pc = "clear_wait"    -> "clear"
                   [] req[r].pc = "store_wait"    -> "store"
                   [] req[r].pc = "append_wait"   -> "append"]
    /\ UNCHANGED <<SESSIONS, turns, fn_in, fn_out>>

\* a turn that asks to clarify whenever its own message yields nothing
AfterExtractionAsking(f, new_conditions) ==
    LET new  == IF new_conditions.t = "dict" /\ DOMAIN new_conditions.v # {}
                THEN new_conditions.v
                ELSE extract_conditions(f.message)
        cond == _merge_conditions(f.session.conditions, new)
    IN  IF DOMAIN new = {}
        THEN [f EXCEPT !.new_conditions = new_conditions, !.conditions = cond,
                       !.reply = ClarifyReply, !.pc = "append_wait"]
        ELSE [f EXCEPT !.new_conditions = new_conditions, !.conditions = cond,
                       !.pc = "query_call"]

\* a turn that does not fall back to the rules when the model yields nothing
AfterExtractionNoFallback(f, new_conditions) ==
    LET new  == IF new_conditions.t = "dict" THEN new_conditions.v ELSE EmptyDict
        cond == _merge_conditions(f.session.conditions, new)
    IN  IF DOMAIN cond = {}
        THEN [f EXCEPT !.new_conditions = new_conditions, !.conditions = cond,
                       !.reply = ClarifyReply, !.pc = "append_wait"]
        ELSE [f EXCEPT !.new_conditions = new_conditions, !.conditions = cond,
                       !.pc = "query_call"]

\* a turn that forgets the conditions of its snapshot
AfterExtractionForgetting(f, new_conditions) ==
    LET new  == IF new_conditions.t = "dict" /\ DOMAIN new_conditions.v # {}
                THEN new_conditions.v
                ELSE extract_conditions(f.message)
        cond == _merge_conditions(EmptyDict, new)
    IN  IF DOMAIN cond = {}
        THEN [f EXCEPT !.new_conditions = new_conditions, !.conditions = cond,
                       !.reply = ClarifyReply, !.pc = "append_wait"]
        ELSE [f EXCEPT !.new_conditions = new_conditions, !.conditions = cond,
                       !.pc = "query_call"]

\* lines 512-519: the frame once the model tier has returned new_conditions
\* (None when the tier is not configured or has failed)
AfterExtraction(f, new_conditions) ==
    LET new  == IF new_conditions.t = "dict" /\ DOMAIN new_conditions.v # {}
                THEN new_conditions.v
                ELSE extract_conditions(f.message)
        cond == _merge_conditions(f.session.conditions, new)
    IN  IF DOMAIN cond = {}
        THEN [f EXCEPT !.new_conditions = new_conditions, !.conditions = cond,
                       !.reply = ClarifyReply, !.pc = "append_wait"]
        ELSE [f EXCEPT !.new_conditions = new_conditions, !.conditions = cond,
                       !.pc = "query_call"]

\* a dispatch that sends rent, terminate and detail turns through extraction
DispatchExtracting(f) ==
    LET intent == _is_special_intent(f.message)
    IN  IF intent = "reset" THEN [f EXCEPT !.pc = "clear_wait"]
        ELSE IF _has_llm(f.model_ip) THEN [f EXCEPT !.pc = "llm_call"]
        ELSE AfterExtraction(f, PyNone)

\* lines 483-511: where the turn goes once it has its copy of the session
Dispatch(f) ==
    LET intent == _is_special_intent(f.message)
    IN  IF intent = "reset" THEN [f EXCEPT !.pc = "clear_wait"]
        ELSE IF intent \in {"rent", "terminate", "detail"} THEN [f EXCEPT !.pc = "special_call"]
        ELSE IF _has_llm(f.model_ip) THEN [f EXCEPT !.pc = "llm_call"]
        ELSE AfterExtraction(f, PyNone)

\* a snapshot that copies the history and not the conditions
SnapshotHistoryOnly(r) ==
    /\ req[r].pc = "snapshot"
    /\ lock = r
    /\ LET sid  == req[r].session_id
           s    == IF sid \in DOMAIN SESSIONS THEN SESSIONS[sid] ELSE NewSession
           copy == [s EXCEPT !.conditions = EmptyDict]
       IN  req' = [req EXCEPT ![r] = Dispatch([req[r] EXCEPT !.session = copy])]
    /\ lock' = NoThread
    /\ UNCHANGED <<SESSIONS, turns, fn_in, fn_out>>

\* lines 479-481, then the dispatch
Snapshot(r) ==
    /\ req[r].pc = "snapshot"
    /\ lock = r
    /\ LET sid  == req[r].session_id
           copy == IF sid \in DOMAIN SESSIONS THEN SESSIONS[sid] ELSE NewSession
       IN  req' = [req EXCEPT ![r] = Dispatch([req[r] EXCEPT !.session = copy])]
    /\ lock' = NoThread
    /\ UNCHANGED <<SESSIONS, turns, fn_in, fn_out>>

\* a reset that clears the history and leaves the conditions
ResetClearHistoryOnly(r) ==
    /\ req[r].pc = "clear"
    /\ lock = r
    /\ LET sid == req[r].session_id
           s   == IF sid \in DOMAIN SESSIONS THEN SESSIONS[sid] ELSE NewSession
       IN  SESSIONS' = Put(SESSIONS, sid, [s EXCEPT !.history = <<>>])
    /\ lock' = NoThread
    /\ req' = [req EXCEPT ![r].pc = "reset_call"]
    /\ UNCHANGED <<turns, fn_in, fn_out>>

\* a reset that keeps the lock over the house-init call
ResetClearKeepingLock(r) ==
    /\ req[r].pc = "clear"
    /\ lock = r
    /\ SESSIONS' = Put(SESSIONS, req[r].session_id, NewSession)
    /\ req' = [req EXCEPT ![r].pc = "reset_call"]
    /\ UNCHANGED <<lock, turns, fn_in, fn_out>>

\* a reset that empties the whole table
ResetClearAll(r) ==
    /\ req[r].pc = "clear"
    /\ lock = r
    /\ SESSIONS' = Dict1(req[r].session_id, NewSession)
    /\ lock' = NoThread
    /\ req' = [req EXCEPT ![r].pc = "reset_call"]
    /\ UNCHANGED <<turns, fn_in, fn_out>>

\* lines 485-486
ResetClear(r) ==
    /\ req[r].pc = "clear"
    /\ lock = r
    /\ SESSIONS' = Put(SESSIONS, req[r].session_id, NewSession)
    /\ lock' = NoThread
    /\ req' = [req EXCEPT ![r].pc = "reset_call"]
    /\ UNCHANGED <<turns, fn_in, fn_out>>

\* lines 487-488: the house-init call returns
ResetCall(r) ==
    /\ req[r].pc = "reset_call"
    /\ \E p \in ToolRuns : LET res == run_tool(p) IN
         req' = [req EXCEPT ![r].pc = "append_wait",
                            ![r].calls = <<(<<A("house-init")>>)>>,
                            ![r].reply =
                               IF TruthyJ(Get(res, "error"))
                               THEN PyStr(<<"chongzhi_shibai">> \o res["error"].v)
                               ELSE PyStr(<<"fangyuan_shuju_yi_chongzhi">>)]
    /\ UNCHANGED <<SESSIONS, lock, turns, fn_in, fn_out>>

\* line 492: the call of agent_reply returns
SpecialCall(r) ==
    /\ req[r].pc = "special_call"
    /\ \E p \in ToolRuns : LET res == run_tool(p) IN
         req' = [req EXCEPT ![r].pc = "append_wait",
                            ![r].calls = <<SpecialCallArgs(req[r].message)>>,
                            ![r].reply = agent_reply(req[r].message, res)]
    /\ UNCHANGED <<SESSIONS, lock, turns, fn_in, fn_out>>

\* lines 499-511: the model service answers, or fails to
LlmCall(r) ==
    /\ req[r].pc = "llm_call"
    /\ \E answer \in LlmAnswers :
         req' = [req EXCEPT ![r] =
                    AfterExtraction(req[r], extract_conditions_with_llm(answer))]
    /\ UNCHANGED <<SESSIONS, lock, turns, fn_in, fn_out>>

\* lines 521-522: the listing API answers the calls of build_and_run_query
QueryCall(r) ==
    /\ req[r].pc = "query_call"
    /\ \E O \in TurnOracles :
         LET q == build_and_run_query(req[r].conditions, O)
         IN  req' = [req EXCEPT ![r].pc = "store_wait",
                                ![r].calls = q.calls,
                                ![r].reply = format_reply(q.result)]
    /\ UNCHANGED <<SESSIONS, lock, turns, fn_in, fn_out>>

\* a store that merges the turn's conditions into what is stored
StoreMerging(r) ==
    /\ req[r].pc = "store"
    /\ lock = r
    /\ LET sid == req[r].session_id
           s   == IF sid \in DOMAIN SESSIONS THEN SESSIONS[sid] ELSE NewSession
       IN  SESSIONS' = Put(SESSIONS, sid,
                           [s EXCEPT !.conditions =
                               _merge_conditions(s.conditions, req[r].conditions)])
    /\ lock' = NoThread
    /\ req' = [req EXCEPT ![r].pc = "append_wait"]
    /\ UNCHANGED <<turns, fn_in, fn_out>>

\* a store that calls the append inside its with-block: the lock is still
\* held when the turn asks for it again
StoreKeepingLock(r) ==
    /\ req[r].pc = "store"
    /\ lock = r
    /\ LET sid == req[r].session_id
           s   == IF sid \in DOMAIN SESSIONS THEN SESSIONS[sid] ELSE NewSession
       IN  SESSIONS' = Put(SESSIONS, sid, [s EXCEPT !.conditions = req[r].conditions])
    /\ req' = [req EXCEPT ![r].pc = "append_wait"]
    /\ UNCHANGED <<lock, turns, fn_in, fn_out>>

\* lines 523-526
StoreConditions(r) ==
    /\ req[r].pc = "store"
    /\ lock = r
    /\ LET sid == req[r].session_id
           s   == IF sid \in DOMAIN SESSIONS THEN SESSIONS[sid] ELSE NewSession
       IN  SESSIONS' = Put(SESSIONS, sid, [s EXCEPT !.conditions = req[r].conditions])
    /\ lock' = NoThread
    /\ req' = [req EXCEPT ![r].pc = "append_wait"]
    /\ UNCHANGED <<turns, fn_in, fn_out>>

\* lines 489, 493, 518, 527 with 531-539; the turn then returns
\* (reply, session_id) and its frame is gone
AppendHistory(r) ==
    /\ req[r].pc = "append"
    /\ lock = r
    /\ SESSIONS' = AppendedHistory(SESSIONS, req[r].session_id,
                                   PyStr(req[r].message), req[r].reply)
    /\ lock' = NoThread
    /\ req' = [req EXCEPT ![r] = IdleFrame]
    /\ UNCHANGED <<turns, fn_in, fn_out>>

Next ==
    \E r \in Threads :
        \/ ServerFree /\ StartKnown(r)
        \/ ServerFree /\ StartFresh(r)
        \/ Acquire(r)
        \/ Snapshot(r)
        \/ ResetClear(r)
        \/ ResetCall(r)
        \/ SpecialCall(r)
        \/ LlmCall(r)
        \/ QueryCall(r)
        \/ StoreConditions(r)
        \/ AppendHistory(r)

\* The same handlers run by concurrent threads (a threading server)
NextThreaded ==
    \E r \in Threads :
        \/ StartKnown(r)
        \/ StartFresh(r)
        \/ Acquire(r)
        \/ Snapshot(r)
        \/ ResetClear(r)
        \/ ResetCall(r)
        \/ SpecialCall(r)
        \/ LlmCall(r)
        \/ QueryCall(r)
        \/ StoreConditions(r)
        \/ AppendHistory(r)

Spec == Init /\ [][Next]_vars

SpecThreaded == Init /\ [][NextThreaded]_vars

-----------------------------------------------------------------------------
(* Claims about the session table *)

Stored(k) == IF k \in DOMAIN SESSIONS THEN SESSIONS[k] ELSE NewSession

\* the reply starts with the atom a
ReplyIs(f, a) == f.reply.t = "str" /\ f.reply.v # <<>> /\ f.reply.v[1] = a

\* the turn has done all but the append of its user/assistant pair
Replying(f) == f.pc \in {"append_wait", "append"}

\* C2: every stored history has at most 2 * MAX_HISTORY_TURNS entries, and
\* an append that would exceed the bound drops the oldest entries: the
\* history after a turn is the most recent 2 * MAX_HISTORY_TURNS entries of
\* the old history followed by the turn's user/assistant pair.
C2_HistoryBounded ==
    /\ [](\A k \in DOMAIN SESSIONS : Len(SESSIONS[k].history) <= 2 * MAX_HISTORY_TURNS)
    /\ [][\A r \in Threads :
            (req[r].pc = "append" /\ req'[r].pc = "idle") =>
                LET k    == req[r].session_id
                    full == Stored(k).history
                            \o <<Entry("user", PyStr(req[r].message)),
                                 Entry("assistant", req[r].reply)>>
                    new  == SESSIONS'[k].history
                    drop == Len(full) - Len(new)
                IN  /\ Len(new) = IF Len(full) > 2 * MAX_HISTORY_TURNS
                                  THEN 2 * MAX_HISTORY_TURNS ELSE Len(full)
                    /\ \A i \in 1..Len(new) : new[i] = full[drop + i]]_vars

\* a full history has taken one more turn: its oldest pair is gone and the
\* newest pair is the turn's
C2_Witness ==
    /\ "s1" \in DOMAIN SESSIONS
    /\ Len(SESSIONS["s1"].history) = 2 * MAX_HISTORY_TURNS
    /\ SESSIONS["s1"].history[2 * MAX_HISTORY_TURNS - 3].content = PyStr(<<"Haidian">>)
    /\ SESSIONS["s1"].history[2 * MAX_HISTORY_TURNS - 1].content = PyStr(<<"Wanke", "xiaoqu">>)

\* the turn whose pair ends the history h was a reset turn
EndsWithReset(h) ==
    /\ h # <<>>
    /\ _is_special_intent(h[Len(h) - 1].content.v) = "reset"

\* the fields some extraction of the message can yield
Extractable(message) ==
    DOMAIN extract_conditions(message)
    \cup UNION {DOMAIN extract_conditions_with_llm(a).v :
                  a \in {b \in LlmAnswers : b.t = "dict"}}

\* C3: the turn that follows a completed reset turn of its session key (no
\* other request for the key in flight) sees empty previous conditions and
\* a history holding nothing older than the reset turn, and the conditions
\* it stores hold only fields extracted from its own message.
C3_ResetClears ==
    \A r \in Threads :
        LET f == req[r]
        IN  (f.pc \notin {"idle", "snapshot_wait", "snapshot"}
             /\ EndsWithReset(f.session.history)) =>
                /\ f.session.conditions = EmptyDict
                /\ Len(f.session.history) = 2
                /\ DOMAIN f.conditions \subseteq Extractable(f.message)
                /\ (Replying(f) /\ f.calls # <<>> /\ _is_special_intent(f.message) = "")
                      => Stored(f.session_id).conditions = f.conditions

\* after a reset of s1 a query for a community has stored its conditions
C3_Witness ==
    \E r \in Threads :
        /\ req[r].pc = "append"
        /\ req[r].session_id = "s1"
        /\ EndsWithReset(req[r].session.history)
        /\ req[r].message = <<"Wanke", "xiaoqu">>
        /\ Stored("s1").conditions = Dict1("community", PyStr(<<"Wanke">>))

\* C4: when the listing-API call of a query turn fails, the turn replies
\* with the error text and the stored conditions of the session are those
\* of before the turn.
C4_FailedQueryKeepsConditions ==
    \A r \in Threads :
        (Replying(req[r]) /\ ReplyIs(req[r], "chaxun_chucuo")) =>
            Stored(req[r].session_id).conditions = req[r].session.conditions

\* C5: when the data-reset call of a reset turn fails, the reply reports
\* the failure and the conditions and the history of the session are those
\* of before the turn.
C5_FailedResetKeepsSession ==
    \A r \in Threads :
        (Replying(req[r]) /\ ReplyIs(req[r], "chongzhi_shibai")) =>
            Stored(req[r].session_id) = req[r].session

OutboundPcs == {"reset_call", "special_call", "llm_call", "query_call"}

LockedPcs == {"snapshot", "clear", "store", "append"}

\* C10: no request holds the session lock while it is inside an outbound
\* call (model service or listing API); the lock is held only around the
\* in-memory reads and updates of the session table.
C10_NoLockAcrossCalls ==
    \A r \in Threads :
        /\ req[r].pc \in OutboundPcs => lock # r
        /\ lock = r => req[r].pc \in LockedPcs

\* a reset turn is inside its house-init call, after its locked clear
C10_Witness ==
    \E r \in Threads :
        /\ req[r].pc = "reset_call"
        /\ req[r].session_id \in DOMAIN SESSIONS
        /\ SESSIONS[req[r].session_id] = NewSession
        /\ lock = NoThread

-----------------------------------------------------------------------------
(* Claims about racing turns *)

\* the condition sets the extraction tiers can yield for a request
\* (lines 499-513): the model's non-empty answer, otherwise the rules'
ExtractionsOf(f) ==
    IF _has_llm(f.model_ip)
    THEN {IF extract_conditions_with_llm(a).t = "dict"
             /\ DOMAIN extract_conditions_with_llm(a).v # {}
          THEN extract_conditions_with_llm(a).v
          ELSE extract_conditions(f.message) : a \in LlmAnswers}
    ELSE {extract_conditions(f.message)}

\* the stored conditions of key k in table S
CondsIn(S, k) == IF k \in DOMAIN S THEN S[k].conditions ELSE EmptyDict

\* thread r writes the conditions of its turn in this step
Stores(r) == req[r].pc = "store" /\ req'[r].pc = "append_wait"

\* thread r clears its session in this step
Clears(r) == req[r].pc = "clear" /\ req'[r].pc = "reset_call"

\* C11: when query turns for one session key race, every write of the
\* stored conditions puts there, whole, the merge the writing request
\* computed from its own snapshot and its own extraction, and nothing but
\* such a write (or a reset) changes them: what is stored after both have
\* completed is the last writer's merge, never a mixture.
C11_LastWriterWins ==
    [][/\ \A r \in Threads :
            Stores(r) =>
                \E x \in ExtractionsOf(req[r]) :
                    CondsIn(SESSIONS', req[r].session_id)
                        = _merge_conditions(req[r].session.conditions, x)
       /\ \A k \in SessionIds :
            CondsIn(SESSIONS', k) # CondsIn(SESSIONS, k) =>
                \E r \in Threads :
                    req[r].session_id = k /\ (Stores(r) \/ Clears(r))]_vars

\* two query turns for s1 both read the empty session, the turn for the
\* district wrote first and the turn for the community wrote last
C11_Witness ==
    \E r1, r2 \in Threads :
        /\ r1 # r2
        /\ req[r1].session_id = "s1" /\ req[r2].session_id = "s1"
        /\ Replying(req[r1]) /\ Replying(req[r2])
        /\ req[r1].session.conditions = EmptyDict
        /\ req[r2].session.conditions = EmptyDict
        /\ req[r1].conditions = Dict1("district", PyStr(<<"Haidian">>))
        /\ req[r2].conditions = Dict1("community", PyStr(<<"Wanke">>))
        /\ Stored("s1").conditions = req[r2].conditions
\* field j of session k is non-blank in S and absent or blank in T
Loses(S, T, k, j) ==
    /\ j \in DOMAIN CondsIn(S, k)
    /\ NonBlank(CondsIn(S, k)[j])
    /\ ~(j \in DOMAIN CondsIn(T, k) /\ NonBlank(CondsIn(T, k)[j]))

\* C12: in any execution, overlapping requests for one session key
\* included, a field present in a session's stored conditions stays
\* present with a non-blank value until a reset turn for that session.
C12_FieldsStayUntilReset ==
    [][\A k \in SessionIds, j \in allowed :
          Loses(SESSIONS, SESSIONS', k, j) =>
              \E r \in Threads : req[r].session_id = k /\ Clears(r)]_vars

\* C12 for the turns as the code runs them: a query turn keeps, with a
\* non-blank value, every field of the conditions it read at its snapshot;
\* a stored field is lost only to a reset of the session or to the write
\* of a query turn that took its snapshot before the field was stored.
C12_SnapshotFieldsStay ==
    [][/\ \A r \in Threads :
            Stores(r) =>
                \A j \in DOMAIN req[r].session.conditions :
                    NonBlank(req[r].session.conditions[j]) =>
                        /\ j \in DOMAIN CondsIn(SESSIONS', req[r].session_id)
                        /\ NonBlank(CondsIn(SESSIONS', req[r].session_id)[j])
       /\ \A k \in SessionIds, j \in allowed :
            Loses(SESSIONS, SESSIONS', k, j) =>
                \E r \in Threads :
                    /\ req[r].session_id = k
                    /\ \/ Clears(r)
                       \/ Stores(r) /\ j \notin DOMAIN req[r].session.conditions]_vars

\* a query turn for a community read the stored district and has stored
\* both fields
C12_Witness ==
    \E r \in Threads :
        /\ Replying(req[r])
        /\ req[r].session.conditions = Dict1("district", PyStr(<<"Haidian">>))
        /\ req[r].message = <<"Wanke", "xiaoqu">>
        /\ Stored(req[r].session_id).conditions =
              Dict2("district", PyStr(<<"Haidian">>), "community", PyStr(<<"Wanke">>))

-----------------------------------------------------------------------------
(* Claims about the extraction tiers of a query turn *)

\* the turn is a query turn that has its merged conditions
Extracted(f) ==
    /\ f.pc \in {"query_call", "store_wait", "store", "append_wait", "append"}
    /\ _is_special_intent(f.message) = ""

\* a reply a turn returns to its caller: a text
NormalReply(f) == f.reply.t = "str" /\ f.reply.v # <<>>

\* C13: in a query turn whose model-backed extractor is not configured, is
\* unreachable, raises or returns content that is no JSON, the conditions
\* are the merge of the snapshot with the rule extractor's result for the
\* message, and the turn goes on to a normal reply: the failure of the
\* model does not reach the caller.
C13_ModelFailureFallsBack ==
    \A r \in Threads :
        LET f == req[r]
        IN  (f.new_conditions = PyNone /\ Extracted(f)) =>
                /\ f.conditions =
                      _merge_conditions(f.session.conditions, extract_conditions(f.message))
                /\ Replying(f) => NormalReply(f)
                /\ (f.pc = "query_call") => DOMAIN f.conditions # {}

\* a turn with a model address got nothing from the model, took the
\* district from the rules and is about to return the listing
C13_Witness ==
    \E r \in Threads :
        /\ req[r].pc = "append"
        /\ _has_llm(req[r].model_ip)
        /\ req[r].new_conditions = PyNone
        /\ req[r].message = <<"Haidian">>
        /\ req[r].session.conditions = EmptyDict
        /\ req[r].conditions = Dict1("district", PyStr(<<"Haidian">>))
        /\ ReplyIs(req[r], "fangyuan_liebiao")

-----------------------------------------------------------------------------
(* Claims about the single-turn intents *)

SingleTurnIntents == {"rent", "terminate", "detail"}

\* the tool a single-turn intent calls
ToolOf(intent) ==
    CASE intent = "rent"      -> A("rent")
      [] intent = "terminate" -> A("terminate")
      [] OTHER                -> A("house")

\* C14: a rent, terminate or detail turn extracts no conditions (it never
\* enters the model call or the query path and its frame holds no
\* conditions), makes the one tool call of its intent, leaves the stored
\* conditions of its session as they were, and its append adds exactly its
\* own user/assistant pair to the history.
C14_SingleTurnFrame ==
    /\ [](\A r \in Threads :
            LET f == req[r]
                i == _is_special_intent(f.message)
            IN  (InFlight(r) /\ i \in SingleTurnIntents) =>
                    /\ f.pc \in {"snapshot_wait", "snapshot", "special_call",
                                 "append_wait", "append"}
                    /\ f.new_conditions = PyNone
                    /\ f.conditions = EmptyDict
                    /\ f.pc \in {"special_call", "append_wait", "append"} =>
                          Stored(f.session_id) = f.session
                    /\ Replying(f) =>
                          /\ Len(f.calls) = 1
                          /\ f.calls[1][1] = ToolOf(i)
                          /\ NormalReply(f))
    /\ [][\A r \in Threads :
            (req[r].pc = "append" /\ req'[r].pc = "idle"
             /\ _is_special_intent(req[r].message) \in SingleTurnIntents) =>
                LET k == req[r].session_id
                IN  /\ SESSIONS'[k].conditions = req[r].session.conditions
                    /\ SESSIONS'[k].history =
                          LastN(req[r].session.history
                                \o <<Entry("user", PyStr(req[r].message)),
                                     Entry("assistant", req[r].reply)>>,
                                2 * MAX_HISTORY_TURNS)]_vars

\* a rent turn of the session with stored conditions has completed: its
\* pair ends the history and the conditions are still the district
C14_Witness ==
    /\ "s1" \in DOMAIN SESSIONS
    /\ \A r \in Threads : ~InFlight(r)
    /\ SESSIONS["s1"].conditions = Dict1("district", PyStr(<<"Haidian">>))
    /\ Len(SESSIONS["s1"].history) = 2 * MAX_HISTORY_TURNS
    /\ SESSIONS["s1"].history[2 * MAX_HISTORY_TURNS - 1] =
          Entry("user", PyStr(<<"zu", "HF_", "1">>))
    /\ SESSIONS["s1"].history[2 * MAX_HISTORY_TURNS - 3] =
          Entry("user", PyStr(<<"Haidian">>))

\* what the tiers yield for the turn: the model's set when it is not
\* empty, otherwise the rules' (lines 499-513)
TierResult(f) ==
    IF f.new_conditions.t = "dict" /\ DOMAIN f.new_conditions.v # {}
    THEN f.new_conditions.v
    ELSE extract_conditions(f.message)

\* every tier yields the empty set for the message of the turn
NothingExtracted(f) == DOMAIN TierResult(f) = {}

\* the turn is a query turn about to return
QueryReplying(f) == Replying(f) /\ _is_special_intent(f.message) = ""

\* C15: a query turn returns the please-clarify reply if and only if every
\* extraction tier yields an empty condition set for its message; a
\* message from which no tier extracts anything gets the please-clarify
\* reply and issues no listing query.
C15_ClarifyIffNothingExtracted ==
    \A r \in Threads :
        QueryReplying(req[r]) =>
            /\ (req[r].reply = ClarifyReply) <=> NothingExtracted(req[r])
            /\ NothingExtracted(req[r]) => req[r].calls = <<>>

\* C15 as the code has it: a query turn returns the please-clarify reply
\* if and only if the merge of the conditions it read at its snapshot with
\* what the tiers yield is empty, that is when the session held no
\* conditions and the tiers yield no non-blank value (an empty set, or
\* blank values only), and then it issues no listing query; a message that
\* yields nothing in a session with stored conditions gets no such reply:
\* the listing query is issued with the stored conditions.
C15_ClarifyIffMergeEmpty ==
    \A r \in Threads :
        LET f == req[r]
            t == TierResult(f)
            clarify == f.reply = ClarifyReply
        IN  QueryReplying(f) =>
                /\ clarify <=> (DOMAIN _merge_conditions(f.session.conditions, t) = {})
                /\ clarify <=>
                      /\ \A k \in DOMAIN t : MergeSkips(t[k])
                      /\ DOMAIN f.session.conditions = {}
                /\ clarify => f.calls = <<>>
                /\ (DOMAIN t = {} /\ DOMAIN f.session.conditions # {}) =>
                      /\ f.calls # <<>>
                      /\ f.conditions = f.session.conditions

\* a greeting in the session that holds a district: the listing query was
\* issued with the stored district and there is no please-clarify reply
C15_Witness ==
    \E r \in Threads :
        /\ QueryReplying(req[r])
        /\ req[r].message = <<"nihao">>
        /\ NothingExtracted(req[r])
        /\ req[r].session.conditions = Dict1("district", PyStr(<<"Haidian">>))
        /\ req[r].calls # <<>>
        /\ req[r].reply # ClarifyReply

-----------------------------------------------------------------------------
(* _normalize_llm_conditions and _merge_conditions, applied to raw maps *)

NormKeys == {"max_price", "bedrooms", "district", "elevator", "foo"}

\* the values a JSON object of the model service can hold for a key
NormVals ==
    [k \in NormKeys |->
        CASE k = "max_price" ->
                {PyNone, PyStr(<<>>), PyStr(<<" ", "4000">>), PyStr(<<"Haidian">>),
                 PyInt(5000), PyFloat(4000, 1), PyBool(TRUE), PyList(<<>>), PyInf}
          [] k = "bedrooms" ->
                {PyNone, PyStr(<<" ">>), PyStr(<<"2", " ">>), PyStr(<<"2">>), PyInt(2),
                 PyFloat(2, 1),
                 PyBool(TRUE), PyList(<<PyInt(2)>>), PyInf}
          [] k = "district" ->
                {PyNone, PyStr(<<>>), PyStr(<<" ", "Haidian">>), PyStr(<<"Haidian">>),
                 PyInt(5), PyList(<<PyStr(<<"Haidian">>)>>)}
          [] k = "elevator" -> {PyStr(<<"true">>), PyBool(TRUE), PyBool(FALSE)}
          [] k = "foo"      -> {PyStr(<<"x">>), PyInt(1)}]

InitNorm ==
    /\ SessionsIdle
    /\ fn_in \in [raw : DictsOver(NormKeys, NormVals)]
    /\ fn_out = Pending

\* normalize applied once and twice, and the two merges with the empty map
ApplyNorm ==
    /\ ~fn_out.done
    /\ LET raw  == fn_in.raw
           once == IF NormalizeRaises(raw) THEN EmptyDict
                   ELSE _normalize_llm_conditions(raw)
       IN  fn_out' = Applied([raised |-> NormalizeRaises(raw),
                              once   |-> once,
                              twice  |-> _normalize_llm_conditions(once),
                              left   |-> _merge_conditions(raw, EmptyDict),
                              right  |-> _merge_conditions(EmptyDict, raw)])
    /\ UNCHANGED <<SESSIONS, lock, req, turns, fn_in>>

SpecNorm == InitNorm /\ [][ApplyNorm]_vars

\* normalize returned a map for the drawn raw map
Normalized == fn_out.done /\ ~fn_out.value.raised

\* C16: normalize is idempotent: wherever it returns a map, normalizing
\* that map again returns the same map (and does not raise).
C16_NormalizeIdempotent ==
    Normalized =>
        /\ ~NormalizeRaises(fn_out.value.once)
        /\ fn_out.value.twice = fn_out.value.once

\* a raw map whose every kept value is converted: a padded numeric string,
\* an int for bedrooms, a padded district, and a key outside the fields
C16_Witness ==
    /\ Normalized
    /\ fn_in.raw = [k \in {"max_price", "bedrooms", "district", "foo"} |->
                      CASE k = "max_price" -> PyStr(<<" ", "4000">>)
                        [] k = "bedrooms"  -> PyInt(2)
                        [] k = "district"  -> PyStr(<<" ", "Haidian">>)
                        [] k = "foo"       -> PyInt(1)]
    /\ fn_out.value.once = [k \in {"max_price", "bedrooms", "district"} |->
                              CASE k = "max_price" -> PyInt(4000)
                                [] k = "bedrooms"  -> PyStr(<<"2">>)
                                [] k = "district"  -> PyStr(<<"Haidian">>)]

\* C17: for every raw map normalize returns a map whose keys are among the
\* 16 fields, with no null or blank value, an integer in every
\* integer-typed field, a string in bedrooms and a trimmed string in every
\* other field.
C17_NormalizedShape ==
    fn_out.done =>
        /\ ~fn_out.value.raised
        /\ \A k \in DOMAIN fn_out.value.once :
              LET x == fn_out.value.once[k]
              IN  /\ k \in allowed
                  /\ NonBlank(x)
                  /\ k \in IntFields => x.t = "int"
                  /\ k = "bedrooms" => x.t = "str"
                  /\ k \notin IntFields \cup {"bedrooms"} =>
                        (x.t = "str" /\ strip(x.v) = x.v)

\* C18: merge identity: for every raw map P, merge(P, {}) equals
\* normalize(P), and for every raw map N, merge({}, N) equals normalize(N).
C18_MergeIdentity ==
    Normalized =>
        /\ fn_out.value.left = fn_out.value.once
        /\ fn_out.value.right = fn_out.value.once

\* the entries of a map that a merge takes (line 271)
WithoutBlanks(d) == [k \in {j \in DOMAIN d : ~MergeSkips(d[j])} |-> d[k]]

\* C18 as the code has it: merge(P, {}) is P itself and merge({}, N) is N
\* without its null and blank-string entries; merge normalizes nothing,
\* and the two results equal normalize(P) and normalize(N) when the map is
\* already normalized (normalize of it returns it unchanged).
C18_MergeIdentityOnNormalized ==
    fn_out.done =>
        /\ fn_out.value.left = fn_in.raw
        /\ fn_out.value.right = WithoutBlanks(fn_in.raw)
        /\ (~fn_out.value.raised /\ fn_out.value.once = fn_in.raw) =>
              /\ fn_out.value.left = fn_out.value.once
              /\ fn_out.value.right = fn_out.value.once

\* an already normalized map with an integer, a bedrooms string and a
\* district has been merged with the empty map on either side
C18_Witness ==
    /\ Normalized
    /\ fn_in.raw = [k \in {"max_price", "bedrooms", "district"} |->
                      CASE k = "max_price" -> PyInt(5000)
                        [] k = "bedrooms"  -> PyStr(<<"2">>)
                        [] k = "district"  -> PyStr(<<"Haidian">>)]
    /\ fn_out.value.once = fn_in.raw
    /\ fn_out.value.left = fn_in.raw
    /\ fn_out.value.right = fn_in.raw

-----------------------------------------------------------------------------
(* Claims about the multi-attribute filter query *)

\* the fields the filter query takes, lines 327-354
FilterFields == allowed \ {"community", "landmark_nearby"}

\* the parameter name of a field
Flag(k) ==
    CASE k = "district"              -> A("--district")
      [] k = "area"                  -> A("--area")
      [] k = "min_price"             -> A("--min_price")
      [] k = "max_price"             -> A("--max_price")
      [] k = "bedrooms"              -> A("--bedrooms")
      [] k = "rental_type"           -> A("--rental_type")
      [] k = "max_subway_dist"       -> A("--max_subway_dist")
      [] k = "subway_station"        -> A("--subway_station")
      [] k = "commute_to_xierqi_max" -> A("--commute_to_xierqi_max")
      [] k = "decoration"            -> A("--decoration")
      [] k = "orientation"           -> A("--orientation")
      [] k = "elevator"              -> A("--elevator")
      [] k = "min_area"              -> A("--min_area")
      [] k = "max_area"              -> A("--max_area")

\* the filter branch has been taken and has returned
FilterRouted ==
    /\ fn_out.done
    /\ "community" \notin DOMAIN fn_in.conditions
    /\ "landmark_nearby" \notin DOMAIN fn_in.conditions

\* the positions of the parameter of field k in a call
FlagAt(call, k) == {i \in 1..Len(call) : call[i] = Flag(k)}

\* C19: with neither community nor landmark_nearby set, route issues a
\* single filter query with page size 20 in which every recognized field
\* that is present in the condition set appears once as a parameter
\* carrying its value, and no parameter appears for an absent field.
C19_FilterCarriesEveryField ==
    FilterRouted =>
        /\ Len(fn_out.value.calls) = 1
        /\ LET call == fn_out.value.calls[1]
               c    == fn_in.conditions
           IN  /\ SubSeq(call, 1, 3) = <<A("by-platform"), A("--page_size"), A("20")>>
               /\ \A k \in FilterFields :
                     IF k \in DOMAIN c
                     THEN \E i \in 1..(Len(call) - 1) :
                             /\ FlagAt(call, k) = {i}
                             /\ call[i + 1] = str(c[k])
                     ELSE FlagAt(call, k) = {}

-----------------------------------------------------------------------------
(* Claims about the server loop *)

\* the server takes a request for a session other than k in this step
AcceptsOther(k) ==
    /\ Next
    /\ \E r \in Threads :
          /\ req[r].pc = "idle"
          /\ req'[r].pc = "snapshot_wait"
          /\ req'[r].session_id # k

\* C20: requests are handled concurrently: while a request for one session
\* is inside an outbound call (model service or listing API), the server
\* can accept a request for a different session, which then runs without
\* waiting for the blocked one.
C20_AcceptsWhileBlocked ==
    \A r \in Threads :
        (req[r].pc \in OutboundPcs /\ turns < MaxTurns) =>
            ENABLED AcceptsOther(req[r].session_id)

-----------------------------------------------------------------------------
(* Termination of the turns *)

\* one message of each kind of turn: reset, query, rent, and a greeting
LiveMsgs == {<<"chongzhi">>, <<"Haidian">>, <<"zu", "HF_", "1">>, <<"nihao">>}

\* requests of one session, lines 565-568
StartLive(r) ==
    \E m \in LiveMsgs, ip \in ModelIps : Start(r, "s1", m, ip)

\* the steps of the handler thread r
Handler(r) ==
    \/ Acquire(r)
    \/ Snapshot(r)
    \/ ResetClear(r)
    \/ ResetCall(r)
    \/ SpecialCall(r)
    \/ LlmCall(r)
    \/ QueryCall(r)
    \/ StoreConditions(r)
    \/ AppendHistory(r)

NextLive == \E r \in Threads : StartLive(r) \/ Handler(r)

WaitPcs == {"snapshot_wait", "clear_wait", "store_wait", "append_wait"}

\* thread r can take a step: it handles a request and, where it is about
\* to enter a with-block, the lock is free.  This is ENABLED Handler(r).
CanStep(r) == InFlight(r) /\ (req[r].pc \in WaitPcs => lock = NoThread)

\* thread r takes a step: every step of a handler moves its pc
Steps(r) == InFlight(r) /\ req'[r].pc # req[r].pc

\* Concurrent handlers under a scheduler that runs every thread that can
\* take a step, with outbound calls that return or run into their time
\* limit (line 117): a handler that can step does step.  The condition is
\* WF_vars(Handler(r)), written out with the value of ENABLED Handler(r).
SpecLive ==
    /\ Init
    /\ [][NextLive]_vars
    /\ \A r \in Threads : []<>(~CanStep(r)) \/ []<><<Steps(r)>>_vars

ListingPcs == {"reset_call", "special_call", "query_call"}

-----------------------------------------------------------------------------
(* The requests the three tool modules send to the listing API:            *)
(* rental_tools.py, rental_api.py, rental_search_tool.py                   *)

\* the endpoints, by the path under /api
LandmarkEndpoints ==
    {<<"landmarks">>, <<"landmarks", "name">>, <<"landmarks", "search">>,
     <<"landmarks", "id">>, <<"landmarks", "stats">>}

ListingEndpoints ==
    {<<"houses", "init">>, <<"houses", "id">>, <<"houses", "listings">>,
     <<"houses", "by_community">>, <<"houses", "by_platform">>, <<"houses", "nearby">>,
     <<"houses", "nearby_landmarks">>, <<"houses", "stats">>, <<"houses", "rent">>,
     <<"houses", "terminate">>, <<"houses", "offline">>}

\* the operations of landmarks(), houses() and house_action() of
\* rental_tools.py, with the endpoint each one requests
ToolsOps ==
    [list |-> <<"landmarks">>, by_name |-> <<"landmarks", "name">>,
     search |-> <<"landmarks", "search">>, by_id |-> <<"landmarks", "id">>,
     landmark_stats |-> <<"landmarks", "stats">>,
     init |-> <<"houses", "init">>, get |-> <<"houses", "id">>,
     listings |-> <<"houses", "listings">>, by_community |-> <<"houses", "by_community">>,
     by_platform |-> <<"houses", "by_platform">>, nearby |-> <<"houses", "nearby">>,
     nearby_landmarks |-> <<"houses", "nearby_landmarks">>, stats |-> <<"houses", "stats">>,
     rent |-> <<"houses", "rent">>, terminate |-> <<"houses", "terminate">>,
     offline |-> <<"houses", "offline">>]

\* the sub-commands of rental_api.py (lines 155-254), with their endpoints
ApiCommands ==
    [c \in {"landmarks", "landmark-by-name", "search-landmarks", "landmark-by-id",
            "landmark-stats", "house-init", "house", "house-listings", "by-community",
            "by-platform", "nearby", "nearby-landmarks", "house-stats", "rent",
            "terminate", "offline"} |->
        CASE c = "landmarks"        -> <<"landmarks">>
          [] c = "landmark-by-name" -> <<"landmarks", "name">>
          [] c = "search-landmarks" -> <<"landmarks", "search">>
          [] c = "landmark-by-id"   -> <<"landmarks", "id">>
          [] c = "landmark-stats"   -> <<"landmarks", "stats">>
          [] c = "house-init"       -> <<"houses", "init">>
          [] c = "house"            -> <<"houses", "id">>
          [] c = "house-listings"   -> <<"houses", "listings">>
          [] c = "by-community"     -> <<"houses", "by_community">>
          [] c = "by-platform"      -> <<"houses", "by_platform">>
          [] c = "nearby"           -> <<"houses", "nearby">>
          [] c = "nearby-landmarks" -> <<"houses", "nearby_landmarks">>
          [] c = "house-stats"      -> <<"houses", "stats">>
          [] c = "rent"             -> <<"houses", "rent">>
          [] c = "terminate"        -> <<"houses", "terminate">>
          [] OTHER                  -> <<"houses", "offline">>]

\* the routes of RentalSearchTool.search: a community, a landmark id, a
\* landmark name that the lookup finds or does not find, the filters
SearchRoutes == {"community", "landmark_id", "landmark_found", "landmark_unknown", "filters"}

NoHeaders == [h \in {} |-> <<>>]

\* _request of rental_tools.py (lines 49-57), request of rental_api.py
\* (lines 23-26) and RentalSearchTool._request (lines 45-48): the request
\* handed to urlopen
Request(path, need_user_id, uid) ==
    [path    |-> path,
     headers |-> IF need_user_id /\ uid # <<>>
                 THEN [h \in {"X-User-ID"} |-> uid]
                 ELSE NoHeaders]

\* the operator identifier in force: the argument, or the configured one.
\* rental_tools.py lines 32, 177, 309: the argument unless it is None;
\* rental_api.py line 258 and rental_search_tool.py line 32: the argument
\* unless it is empty (rental_api.py configures the empty identifier,
\* line 15; the other two read the environment)
Uid(module, user_id, env) ==
    CASE module = "rental_tools" -> IF user_id # PyNone THEN user_id.v ELSE env
      [] module = "rental_api"   -> IF Truthy(user_id) THEN user_id.v ELSE <<>>
      [] OTHER                   -> IF Truthy(user_id) THEN user_id.v ELSE env

\* what one call of a module sends, in order
Sends(module, op, user_id, env) ==
    LET uid == Uid(module, user_id, env)
    IN  CASE module = "rental_tools" ->
                <<Request(ToolsOps[op], ToolsOps[op] \in ListingEndpoints, uid)>>
          [] module = "rental_api" ->
                \* main, lines 260-268
                IF ApiCommands[op] \in ListingEndpoints /\ uid = <<>> /\ op # "house-init"
                THEN <<>>
                ELSE <<Request(ApiCommands[op], ApiCommands[op] \in ListingEndpoints, uid)>>
          [] OTHER ->
                \* RentalSearchTool.search, lines 122-202
                IF uid = <<>> THEN <<>>
                ELSE CASE op = "community" ->
                            <<Request(<<"houses", "by_community">>, TRUE, uid)>>
                       [] op = "landmark_id" ->
                            <<Request(<<"houses", "nearby">>, TRUE, uid)>>
                       [] op = "landmark_found" ->
                            <<Request(<<"landmarks", "name">>, FALSE, uid),
                              Request(<<"houses", "nearby">>, TRUE, uid)>>
                       [] op = "landmark_unknown" ->
                            <<Request(<<"landmarks", "name">>, FALSE, uid),
                              Request(<<"landmarks", "search">>, FALSE, uid)>>
                       [] OTHER ->
                            <<Request(<<"houses", "by_platform">>, TRUE, uid)>>

HeaderCalls ==
    [module : {"rental_tools"}, op : DOMAIN ToolsOps]
    \cup [module : {"rental_api"}, op : DOMAIN ApiCommands]
    \cup [module : {"rental_search_tool"}, op : SearchRoutes]

InitHeader ==
    /\ SessionsIdle
    /\ fn_in \in [call    : HeaderCalls,
                  user_id : {PyNone, PyStr(<<>>), PyStr(<<"u2">>)},
                  env     : {<<>>, <<"u1">>}]
    /\ fn_out = Pending

ApplyHeader ==
    /\ ~fn_out.done
    /\ fn_out' = Applied(Sends(fn_in.call.module, fn_in.call.op, fn_in.user_id, fn_in.env))
    /\ UNCHANGED <<SESSIONS, lock, req, turns, fn_in>>

SpecHeader == InitHeader /\ [][ApplyHeader]_vars

\* C22: every request sent to a listing-scoped endpoint carries the
\* X-User-ID header, so that with an empty operator identifier no such
\* request is sent; a request to a landmark endpoint never carries it.
C22_ListingRequestsCarryOperator ==
    fn_out.done =>
        \A i \in 1..Len(fn_out.value) :
            LET q == fn_out.value[i]
            IN  /\ q.path \in ListingEndpoints =>
                      /\ "X-User-ID" \in DOMAIN q.headers
                      /\ q.headers["X-User-ID"] # <<>>
                /\ q.path \in LandmarkEndpoints => "X-User-ID" \notin DOMAIN q.headers

-----------------------------------------------------------------------------
(* extract_conditions, applied to drawn texts *)

MaxLen == 4

\* the atoms of the price and area phrases, a space and a word of no rule
ExtractAtoms ==
    {"3000", "5000", "yinei", "buchaoguo", "dao", "ping", "mi", "yusuan", "yuan", " "}

\* two numbers side by side would be one number of the text
Texts ==
    {t \in UNION {[1..n -> ExtractAtoms] : n \in 0..MaxLen} :
        \A i \in 1..(Len(t) - 1) : ~(IsNum(t[i]) /\ IsNum(t[i + 1]))}

InitExtract ==
    /\ SessionsIdle
    /\ fn_in \in [text : Texts]
    /\ fn_out = Pending

ApplyExtract ==
    /\ ~fn_out.done
    /\ fn_out' = Applied(extract_conditions(fn_in.text))
    /\ UNCHANGED <<SESSIONS, lock, req, turns, fn_in>>

SpecExtract == InitExtract /\ [][ApplyExtract]_vars

\* the positions of the numbers of a text
NumsOf(t) == {i \in 1..Len(t) : IsNum(t[i])}

\* the number at p is followed by the at-most word, or preceded by the
\* not-more-than word
AtMostShapeAt(t, p) ==
    \/ At(t, Sp(t, p + 1)) = "yinei"
    \/ \E q \in 1..(p - 1) : t[q] = "buchaoguo" /\ Sp(t, q + 1) = p

\* the positions at which a range N dao M starts
RangesOf(t) == {i \in 1..Len(t) : RangeSecond(t, i) # 0}

\* C23: a text whose only number is in an at-most price shape (N yinei,
\* buchaoguo N) yields max_price = N and no min_price; a text with a range
\* shape N dao M yields min_price = N and max_price = M, whatever the
\* at-most pattern matches in the same text.
C23_PriceExtraction ==
    fn_out.done =>
        LET t == strip(fn_in.text)
            c == fn_out.value
        IN  /\ \A p \in NumsOf(t) :
                  (NumsOf(t) = {p} /\ AtMostShapeAt(t, p)) =>
                      /\ Get(c, "max_price") = PyInt(int(t[p]))
                      /\ "min_price" \notin DOMAIN c
            /\ RangesOf(t) # {} =>
                  LET i == CHOOSE j \in RangesOf(t) : \A k \in RangesOf(t) : j <= k
                  IN  /\ Get(c, "min_price") = PyInt(int(t[i]))
                      /\ Get(c, "max_price") = PyInt(int(t[RangeSecond(t, i)]))

\* the range 3000 dao 5000, whose first number the at-most pattern has
\* matched as well, gave both bounds
C23_Witness ==
    /\ fn_out.done
    /\ fn_in.text = <<"3000", "dao", "5000">>
    /\ fn_out.value = Dict2("min_price", PyInt(3000), "max_price", PyInt(5000))

PriceFields == {"min_price", "max_price"}

AreaFields == {"min_area", "max_area"}

\* the number at p is followed by the unit word and the at-most word
AreaAtMostShapeAt(t, p) ==
    LET u == Sp(t, p + 1)
        v == IF At(t, u + 1) = "mi" THEN u + 2 ELSE u + 1
    IN  At(t, u) = "ping" /\ At(t, Sp(t, v)) = "yinei"

\* the range starting at p is followed by the unit word
AreaRangeShapeAt(t, p) ==
    RangeSecond(t, p) # 0 /\ At(t, Sp(t, RangeSecond(t, p) + 1)) = "ping"

\* C24: a text whose only numeric phrase is an area bound sets the area
\* fields only (N ping yinei: max_area = N; N dao M ping: min_area = N and
\* max_area = M) and no price field; a text without the unit word sets no
\* area field.
C24_AreaIndependentOfPrice ==
    fn_out.done =>
        LET t == strip(fn_in.text)
            c == fn_out.value
        IN  /\ \A p \in NumsOf(t) :
                  (NumsOf(t) = {p} /\ AreaAtMostShapeAt(t, p)) =>
                      /\ Get(c, "max_area") = PyInt(int(t[p]))
                      /\ DOMAIN c \cap (PriceFields \cup {"min_area"}) = {}
            /\ \A p \in NumsOf(t) :
                  (NumsOf(t) = {p, RangeSecond(t, p)} /\ AreaRangeShapeAt(t, p)) =>
                      /\ Get(c, "min_area") = PyInt(int(t[p]))
                      /\ Get(c, "max_area") = PyInt(int(t[RangeSecond(t, p)]))
                      /\ DOMAIN c \cap PriceFields = {}
            /\ ~Has(t, <<"ping">>) => DOMAIN c \cap AreaFields = {}

\* the part of C24 that the extractor keeps: the area fields have the
\* values of the area phrase, and no area field without the unit word
C24_AreaFieldsOnly ==
    fn_out.done =>
        LET t == strip(fn_in.text)
            c == fn_out.value
        IN  /\ \A p \in NumsOf(t) :
                  (NumsOf(t) = {p} /\ AreaAtMostShapeAt(t, p)) =>
                      /\ Get(c, "max_area") = PyInt(int(t[p]))
                      /\ "min_area" \notin DOMAIN c
            /\ \A p \in NumsOf(t) :
                  (NumsOf(t) = {p, RangeSecond(t, p)} /\ AreaRangeShapeAt(t, p)) =>
                      /\ Get(c, "min_area") = PyInt(int(t[p]))
                      /\ Get(c, "max_area") = PyInt(int(t[RangeSecond(t, p)]))
            /\ ~Has(t, <<"ping">>) => DOMAIN c \cap AreaFields = {}

-----------------------------------------------------------------------------
(* do_POST: from the request body to the turn *)

\* a or b of Python
Or(a, b) == IF TruthyJ(a) THEN a ELSE b

\* the dicts with some of the keys of vals, each with one of its values
ObjectsOver(vals) ==
    UNION {[K -> UNION {vals[k] : k \in K}] : K \in SUBSET DOMAIN vals}

BodyVals ==
    [message    |-> {PyStr(<<"chongzhi">>), PyStr(<<"zu", "HF_", "1">>), PyInt(5), PyInt(0)},
     text       |-> {PyStr(<<"Haidian">>)},
     session_id |-> {PyStr(<<" ", "s1">>), PyInt(7)},
     model_ip   |-> {PyStr(<<"10.0.0.1">>), PyInt(1)}]

\* the JSON objects a client can send
BodyObjects == {d \in ObjectsOver(BodyVals) : \A k \in DOMAIN d : d[k] \in BodyVals[k]}

\* the request bodies: none (no Content-Length), blank, no JSON, or the text
\* of a JSON value
Bodies ==
    {[kind |-> "none"], [kind |-> "blank"], [kind |-> "unparsable"]}
        \cup {[kind |-> "json", value |-> x] :
                x \in {PyDict(d) : d \in BodyObjects}
                        \cup {PyList(<<>>), PyInt(5), PyNone, PyStr(<<"nihao">>)}}

Raises(error, line) == [raised |-> TRUE, error |-> error, line |-> line]

\* lines 558-568 and 477-483: the call of agent_reply_with_session that the
\* body leads to, or the exception that ends the handler before any reply
do_POST(body) ==
    LET data == IF body.kind = "json" THEN body.value ELSE PyDict(EmptyDict)
    IN  IF data.t # "dict" THEN Raises("AttributeError", 565)
        ELSE
        LET message    == Or(Or(Get(data.v, "message"), Get(data.v, "text")), PyStr(<<>>))
            model_ip   == Or(Get(data.v, "model_ip"), PyStr(<<>>))
            session_id == Or(Get(data.v, "session_id"), PyStr(<<>>))
        IN  IF model_ip.t # "str" THEN Raises("AttributeError", 566)
            ELSE IF session_id.t # "str" THEN Raises("AttributeError", 567)
            ELSE IF message.t # "str" THEN Raises("AttributeError", 463)
            ELSE [raised     |-> FALSE,
                  message    |-> message.v,
                  model_ip   |-> strip(model_ip.v),
                  session_id |-> strip(session_id.v)]

\* the server takes a request: its handler fails, or starts the turn
Post(r) ==
    /\ ServerFree
    /\ req[r].pc = "idle"
    /\ \A r2 \in Threads : r2 < r => InFlight(r2)
    /\ turns < MaxTurns
    /\ turns' = turns + 1
    /\ \E body \in Bodies :
         LET o == do_POST(body)
         IN  /\ fn_in' = [body |-> body]
             /\ fn_out' = Applied(o)
             /\ IF o.raised
                THEN UNCHANGED req
                ELSE \E k \in IF o.session_id = <<>> THEN FreshIds ELSE {o.session_id[1]} :
                        req' = [req EXCEPT ![r] =
                                 [IdleFrame EXCEPT !.pc = "snapshot_wait",
                                                   !.session_id = k,
                                                   !.message = o.message,
                                                   !.model_ip = o.model_ip]]
    /\ UNCHANGED <<SESSIONS, lock>>

NextPost == \E r \in Threads : Post(r) \/ Handler(r)

SpecPost == Init /\ [][NextPost]_vars

\* C25: every POST to the chat endpoint is answered: the handler of no
\* request body fails before the turn (a JSON value that is no object and a
\* message that is no string included), a body that is no JSON is handled
\* as the empty message, and the turn ends with a text reply.
C25_EveryPostReplies ==
    /\ fn_out.done =>
          /\ ~fn_out.value.raised
          /\ fn_in.body.kind = "unparsable" => fn_out.value.message = <<>>
    /\ \A r \in Threads : Replying(req[r]) => NormalReply(req[r])

-----------------------------------------------------------------------------
(* Claims about a reset and the turns in flight *)

\* the last turn that completed for session k is a reset turn
ResetDone(k) == EndsWithReset(Stored(k).history)

\* thread r takes its snapshot in this step
Snapshots(r) == req[r].pc = "snapshot" /\ req'[r].pc # "snapshot"

\* C26: after a reset turn of a session has completed, the stored
\* conditions never again hold a value stored before the reset, also when a
\* query turn of the session had taken its snapshot before the reset ran:
\* whatever a turn stores then is a value its own message yielded or a
\* value that is stored at that time.
C26_ResetForgets ==
    [][\A r \in Threads :
          LET k == req[r].session_id
              x == TierResult(req[r])
          IN  (Stores(r) /\ ResetDone(k)) =>
                  \A j \in DOMAIN CondsIn(SESSIONS', k) :
                      \/ j \in DOMAIN x /\ CondsIn(SESSIONS', k)[j] = x[j]
                      \/ j \in DOMAIN CondsIn(SESSIONS, k)
                            /\ CondsIn(SESSIONS', k)[j] = CondsIn(SESSIONS, k)[j]]_vars

\* C26 for the turns as the code runs them: the clear of a reset turn
\* empties the session; a snapshot reads what is stored at that time; a
\* query turn that stores after a reset has completed stores the merge of
\* its own snapshot with what its message yielded, so a turn that took its
\* snapshot before the clear brings the fields of that snapshot back.
C26_SnapshotSurvivesReset ==
    [][\A r \in Threads :
          LET k == req[r].session_id
          IN  /\ Clears(r) => SESSIONS'[k] = NewSession
              /\ Snapshots(r) => req'[r].session = Stored(k)
              /\ (Stores(r) /\ ResetDone(k)) =>
                    CondsIn(SESSIONS', k)
                        = _merge_conditions(req[r].session.conditions, TierResult(req[r]))]_vars

\* a query turn read the district of s1, a reset turn of s1 then completed,
\* and the query turn has stored the district again
C26_Witness ==
    \E r \in Threads :
        /\ Replying(req[r])
        /\ req[r].session_id = "s1"
        /\ req[r].message = <<"Wanke", "xiaoqu">>
        /\ req[r].session.conditions = Dict1("district", PyStr(<<"Haidian">>))
        /\ ResetDone("s1")
        /\ Len(Stored("s1").history) = 2
        /\ Stored("s1").conditions =
              Dict2("district", PyStr(<<"Haidian">>), "community", PyStr(<<"Wanke">>))

-----------------------------------------------------------------------------
(* Claims about the shape of the histories *)

\* thread r appends the pair of its turn in this step
Appends(r) == req[r].pc = "append" /\ req'[r].pc = "idle"

\* the history of key k in table S
HistoryIn(S, k) == IF k \in DOMAIN S THEN S[k].history ELSE <<>>

\* h is user, assistant, user, assistant, ...
Alternates(h) ==
    /\ Len(h) % 2 = 0
    /\ \A i \in 1..Len(h) : h[i].role = IF i % 2 = 1 THEN "user" ELSE "assistant"

\* C27: every stored history has even length and alternates user,
\* assistant, ... starting with a user entry; a history changes only by
\* the clear of a reset turn and by the append of a turn, which puts at its
\* end the message of the turn and then the reply the turn returns for it,
\* after the entries that were there (the oldest dropped at the bound);
\* also when requests of one session interleave.
C27_HistoryAlternates ==
    /\ [](\A k \in DOMAIN SESSIONS : Alternates(SESSIONS[k].history))
    /\ [][/\ \A r \in Threads :
               Appends(r) =>
                   LET old == HistoryIn(SESSIONS, req[r].session_id)
                       new == HistoryIn(SESSIONS', req[r].session_id)
                       n   == Len(new)
                   IN  /\ n >= 2
                       /\ new[n - 1] = Entry("user", PyStr(req[r].message))
                       /\ new[n] = Entry("assistant", req[r].reply)
                       /\ NormalReply(req[r])
                       /\ \A i \in 1..(n - 2) : new[i] = old[Len(old) - (n - 2) + i]
          /\ \A k \in SessionIds :
               HistoryIn(SESSIONS', k) # HistoryIn(SESSIONS, k) =>
                   \E r \in Threads :
                       req[r].session_id = k /\ (Appends(r) \/ Clears(r))]_vars

\* a turn of s1 has appended its pair to the full history, whose oldest
\* pair is dropped, while another turn of s1 that read the history before
\* is about to append its own
C27_Witness ==
    LET h == Stored("s1").history
        n == Len(h)
    IN  /\ n = 2 * MAX_HISTORY_TURNS
        /\ \E r \in Threads : Replying(req[r]) /\ req[r].session_id = "s1"
        /\ \A r \in Threads : InFlight(r) =>
               req[r].session.history = LongSession.history
        /\ h[n - 1].content = PyStr(<<"HF_", "1">>)
        /\ h[n].role = "assistant"

-----------------------------------------------------------------------------
(* Claims about the isolation of the sessions *)

\* key k has the same entry, or none, in the tables S and T
SameEntry(S, T, k) ==
    /\ (k \in DOMAIN S) = (k \in DOMAIN T)
    /\ k \in DOMAIN S => S[k] = T[k]

\* C28: a step of a turn for session key A, a reset turn included, leaves
\* the history and the conditions stored for every other key B as they
\* are, under every interleaving of the requests.
C28_SessionsIsolated ==
    [][\A r \in Threads :
          req'[r] # req[r] =>
              \A k \in SessionIds \ {req[r].session_id} :
                  SameEntry(SESSIONS, SESSIONS', k)]_vars

\* a query turn of s2 has stored its conditions while a reset turn of s1
\* has cleared its session: s2 holds what its own turn stored
C28_Witness ==
    \E r1, r2 \in Threads :
        /\ req[r1].session_id = "s1" /\ req[r1].pc = "reset_call"
        /\ req[r2].session_id = "s2" /\ Replying(req[r2])
        /\ req[r2].message = <<"Haidian">>
        /\ Stored("s1") = NewSession
        /\ Stored("s2").conditions = req[r2].conditions
        /\ Stored("s2").conditions # EmptyDict

-----------------------------------------------------------------------------
(* Query turns of one session, one after the other *)

\* what the model service can answer to a query turn
\* an answer with a key outside the enumeration, a null and a blank value
DirtyAnswer ==
    PyDict(Put(Put(Dict2("foo", PyStr(<<"x">>), "district", PyNone),
                   "area", PyStr(<<" ">>)),
               "max_price", PyStr(<<"4000">>)))

StickyAnswers ==
    LlmAnswers
        \cup { PyDict(Dict1("community", PyStr(<<"Jinmao">>))),
               PyDict(Dict2("community", PyBool(FALSE), "district", PyStr(<<"Chaoyang">>))),
               DirtyAnswer }

\* the messages of query turns
QueryMsgs == {m \in Msgs : _is_special_intent(m) = ""}

TurnInputs == [message : QueryMsgs, model_ip : ModelIps, answer : StickyAnswers]

\* stored conditions with a community
WithCommunity ==
    { Dict1("community", PyStr(<<"Wanke">>)),
      Dict2("community", PyStr(<<"Wanke">>), "district", PyStr(<<"Haidian">>)) }

\* lines 497-527 of a query turn that reads the stored conditions: the
\* conditions it stores and the calls of its query (none when it asks to
\* clarify)
query_turn(stored, t) ==
    LET f0  == [IdleFrame EXCEPT !.message = t.message,
                                 !.model_ip = t.model_ip,
                                 !.session = [NewSession EXCEPT !.conditions = stored]]
        new == IF _has_llm(t.model_ip) THEN extract_conditions_with_llm(t.answer) ELSE PyNone
        f   == AfterExtraction(f0, new)
    IN  [conditions |-> f.conditions,
         calls      |-> IF f.pc = "query_call"
                        THEN build_and_run_query(f.conditions, [i \in 1..3 |-> OkResp]).calls
                        ELSE <<>>]

InitSticky ==
    /\ SessionsIdle
    /\ fn_in \in [stored : WithCommunity, turns : [1..MaxTurns -> TurnInputs]]
    /\ fn_out = Pending

\* the next turn of the session runs
ApplyTurn ==
    LET n      == IF fn_out.done THEN fn_out.value.n ELSE 0
        stored == IF fn_out.done THEN fn_out.value.conditions ELSE fn_in.stored
    IN  /\ n < MaxTurns
        /\ LET q == query_turn(stored, fn_in.turns[n + 1])
           IN  fn_out' = Applied([n |-> n + 1, conditions |-> q.conditions, calls |-> q.calls])
        /\ UNCHANGED <<SESSIONS, lock, req, turns, fn_in>>

SpecSticky == InitSticky /\ [][ApplyTurn]_vars

\* the calls are the one call of the community-scoped query
ByCommunity(calls) == Len(calls) = 1 /\ calls[1][1] = A("by-community")

\* C29: once the stored conditions of a session hold a community, every
\* later query turn of the session (no reset between, one request after the
\* other) is routed to the community-scoped query, whatever its message
\* and the model's answer add or change.
C29_CommunitySticky ==
    fn_out.done => ByCommunity(fn_out.value.calls)

\* C30: the stored conditions of a session hold only keys of the
\* enumeration of the 16 fields and no null and no blank-string value,
\* whether the model or the rules produced the conditions of the turns.
C30_StoredConditionsClean ==
    fn_out.done =>
        LET c == fn_out.value.conditions
        IN  \A j \in DOMAIN c : j \in allowed /\ NonBlank(c[j])

\* the model answered the first turn with a foreign key, a null and a blank
\* value, the rules found a blank community in the second: what is stored
\* is the conditions of before and the one usable field
C30_Witness ==
    /\ fn_out.done
    /\ fn_out.value.n = 2
    /\ fn_in.turns[1].answer = DirtyAnswer /\ _has_llm(fn_in.turns[1].model_ip)
    /\ fn_in.turns[2].message = <<"'", "xiaoqu">> /\ ~_has_llm(fn_in.turns[2].model_ip)
    /\ fn_out.value.conditions = Put(fn_in.stored, "max_price", PyInt(4000))

=============================================================================
